---- MODULE Spec2Model ----
(***************************************************************************)
(* Safe Transaction Encryption (safe-txe): the TXE binary codec, the RLP   *)
(* codec and the Safe-Tx codec, modelled from the TypeScript sources.      *)
(*                                                                         *)
(* Byte arrays (Uint8Array) are sequences of integers 0..255, indexed from *)
(* 1 here and from 0 in the source.  Strings are sequences of character    *)
(* codes ("0" is 48, "x" is 120).  A call that can throw returns a record  *)
(* [kind |-> "ok", value |-> v] or [kind |-> "throw", error |-> e].        *)
(***************************************************************************)
EXTENDS Integers, Sequences, FiniteSets, TLC

VARIABLES
    pc,         \* position of the caller: "start", "encoded", "failed", "decoded"
    txe,        \* TXE codec: the envelope handed to encode, as the
                \* parameters [L, N, ivLen, seed] of its byte pattern
    encoded,    \* TXE codec: whether encode returned ("ok") or threw
    extra,      \* TXE codec: the bytes appended to the blob before decoding
    keep,       \* TXE codec: the number of bytes the blob is cut to, or -1
    decoded,    \* TXE codec: whether decode returned ("ok") or threw
    source,     \* RLP and Safe-Tx codecs: where the bytes come from: "raw",
                \* "tree" (RLP encode) or "tx" (Safe-Tx encode)
    tree,       \* RLP codec: the value handed to encode
    safeTx,     \* Safe-Tx codec: the transaction handed to encode
    wire,       \* RLP and Safe-Tx codecs: the bytes handed to decode
    rlpOut,     \* RLP codec: what decode returned or threw
    safeOut,    \* Safe-Tx codec: what decode returned or threw
    encRecipients, \* encrypt: the recipients, as the numbers of their key
                \* pairs
    rng,        \* the number of values drawn from the random generator
    encCek,     \* encrypt: the content encryption key, <<>> before it is
                \* made
    encEpks,    \* encrypt: the ephemeral private key of every position,
                \* <<>> while its generation is pending
    encJwes,    \* encrypt: the JWE of every position, None while pending
    encPrivs,   \* encrypt: the exported keys of every position, None while
                \* pending
    encOut,     \* encrypt: what it returned or threw
    stored,     \* the blob handed to decrypt and to extract
    decKey,     \* decrypt: the number of the key pair whose private key it
                \* is given, 0 before
    decOut,     \* decrypt: what it returned or threw
    extractArgs, \* extract: the struct hash and the nonce it is called with
    extracted,  \* extract: what it returned or threw
    circuitInput, \* the Input handed to argify and to the circuit
    argv,       \* argify: what it returned
    verdict,    \* the circuit: "none", "accept" or "reject"
    history,    \* what the caller kept of its earlier calls, oldest first
    mem         \* the caller's memory: the array buffers and the typed
                \* arrays that are views of them, None while not modelled

txeVars == <<txe, encoded, extra, keep, decoded>>
rlpVars == <<source, tree, safeTx, wire, rlpOut, safeOut>>
encVars ==
    <<encRecipients, rng, encCek, encEpks, encJwes, encPrivs, encOut, stored,
      decKey, decOut>>
circuitVars == <<extractArgs, extracted, circuitInput, argv, verdict>>
callerVars == <<history, mem>>
vars == <<pc, txeVars, rlpVars, encVars, circuitVars, callerVars>>

(***************************************************************************)
(* Bounds of the model.                                                    *)
(***************************************************************************)
MaxSmallLen == 2            \* ciphertext lengths 0..MaxSmallLen are enumerated
MaxSmallCount == 2          \* recipient counts 0..MaxSmallCount are enumerated
MaxSeed == 1                \* byte patterns 0..MaxSeed
MaxExtra == 2               \* at most this many bytes appended to a blob
MaxRawLen == 3              \* raw inputs of RLP decode have 0..MaxRawLen bytes
MaxItems == 2               \* lists handed to RLP encode have 0..MaxItems items
MaxCalls == 2               \* encrypt is called at most MaxCalls times in a row

(***************************************************************************)
(* Results of calls.                                                       *)
(***************************************************************************)
None == [kind |-> "none"]
Ok(v) == [kind |-> "ok", value |-> v]
Throw(e) == [kind |-> "throw", error |-> e]

Min(a, b) == IF a < b THEN a ELSE b
Max(a, b) == IF a > b THEN a ELSE b

(***************************************************************************)
(* Uint8Array.prototype.slice(start, end) for 0 <= start: both ends are    *)
(* clamped to the array's length, and an empty range gives an empty array. *)
(***************************************************************************)
Slice(array, start, end) ==
    LET len == Len(array)
        from == Min(start, len)
        to == Min(end, len)
    IN  IF to <= from THEN <<>> ELSE SubSeq(array, from + 1, to)

(***************************************************************************)
(* TXE binary codec (txe.ts).                                              *)
(***************************************************************************)
IV_LEN == 12
TAG_LEN == 16
ENCRYPTED_KEY_LEN == 24
EPHEMERAL_PUBLIC_KEY_LEN == 32
UINT16 == 65536
UINT8 == 256

\* isTXE: the ciphertext is any Uint8Array; iv, tag and the recipients'
\* fields have fixed lengths; the recipient list is not empty.
isTXE(value) ==
    /\ Len(value.iv) = IV_LEN
    /\ Len(value.tag) = TAG_LEN
    /\ Len(value.recipients) > 0
    /\ \A i \in 1..Len(value.recipients) :
          /\ Len(value.recipients[i].encryptedKey) = ENCRYPTED_KEY_LEN
          /\ Len(value.recipients[i].ephemeralPublicKey) = EPHEMERAL_PUBLIC_KEY_LEN

\* Mutant of setUint16: the length is stored low byte first.
setUint16_littleEndian(value) ==
    LET v == value % 65536 IN <<v % 256, v \div 256>>

\* DataView.setUint16(offset, value) with the default byte order: the value
\* is converted with ToUint16 (modulo 2^16) and stored high byte first.
setUint16(value) ==
    LET v == value % UINT16 IN <<v \div 256, v % 256>>

\* DataView.setUint8(offset, value): the value is converted modulo 2^8.
setUint8(value) == <<value % UINT8>>

\* The recipient records written by the loop of encode, in order: record i
\* starts (i - 1) * 56 bytes into the region, its encryptedKey first.
writeRecipients(recipients) ==
    LET size == ENCRYPTED_KEY_LEN + EPHEMERAL_PUBLIC_KEY_LEN
    IN  [k \in 1..(Len(recipients) * size) |->
            LET i == ((k - 1) \div size) + 1
                j == (k - 1) % size
            IN  IF j < ENCRYPTED_KEY_LEN
                THEN recipients[i].encryptedKey[j + 1]
                ELSE recipients[i].ephemeralPublicKey[j - ENCRYPTED_KEY_LEN + 1]]

\* encode: the cursor advances by exactly the size of each field written,
\* so the writes are contiguous and fill the buffer allocated for them.
txe_encode(e) ==
    IF ~isTXE(e) THEN Throw("invalid TXE")
    ELSE Ok(setUint16(Len(e.ciphertext))
              \o e.ciphertext
              \o e.iv
              \o e.tag
              \o setUint8(Len(e.recipients) - 1)
              \o writeRecipients(e.recipients))

\* Mutant of getUint16: the length is read low byte first.
getUint16_littleEndian(d, offset) ==
    IF offset + 2 > Len(d) THEN Throw("RangeError")
    ELSE Ok(d[offset + 2] * 256 + d[offset + 1])

\* DataView.getUint16(offset) / getUint8(offset): a RangeError when the
\* read would pass the end of the view.
getUint16(d, offset) ==
    IF offset + 2 > Len(d) THEN Throw("RangeError")
    ELSE Ok(d[offset + 1] * 256 + d[offset + 2])

getUint8(d, offset) ==
    IF offset + 1 > Len(d) THEN Throw("RangeError")
    ELSE Ok(d[offset + 1])

\* take(len) at cursor position start.
take(d, start, len) == Slice(d, start, start + len)

\* decode: a pointer walk; take() slices and so never fails.
txe_decode(d) ==
    LET ciphertextLength == getUint16(d, 0)
    IN  IF ciphertextLength.kind = "throw" THEN ciphertextLength
        ELSE
        LET L == ciphertextLength.value
            ciphertext == take(d, 2, L)
            iv == take(d, 2 + L, IV_LEN)
            tag == take(d, 2 + L + IV_LEN, TAG_LEN)
            countAt == 2 + L + IV_LEN + TAG_LEN
            encryptedKeysCountMinusOne == getUint8(d, countAt)
        IN  IF encryptedKeysCountMinusOne.kind = "throw"
            THEN encryptedKeysCountMinusOne
            ELSE
            LET first == countAt + 1
                size == ENCRYPTED_KEY_LEN + EPHEMERAL_PUBLIC_KEY_LEN
                recipients ==
                    [i \in 1..(encryptedKeysCountMinusOne.value + 1) |->
                        [encryptedKey |->
                            take(d, first + (i - 1) * size, ENCRYPTED_KEY_LEN),
                         ephemeralPublicKey |->
                            take(d, first + (i - 1) * size + ENCRYPTED_KEY_LEN,
                                 EPHEMERAL_PUBLIC_KEY_LEN)]]
            IN  Ok([ciphertext |-> ciphertext, iv |-> iv, tag |-> tag,
                    recipients |-> recipients])

(***************************************************************************)
(* Hex strings (bytes.ts, rlp.ts).  A string is the sequence of its        *)
(* character codes; a value of the TypeScript type Bytes starts with "0x". *)
(***************************************************************************)
\* "0".."9", "a".."f" and "0".."9", "A".."F".
HexDigits ==
    <<48, 49, 50, 51, 52, 53, 54, 55, 56, 57, 97, 98, 99, 100, 101, 102>>
UpperHexDigits ==
    <<48, 49, 50, 51, 52, 53, 54, 55, 56, 57, 65, 66, 67, 68, 69, 70>>
\* The string "0x".
Prefix0x == <<48, 120>>

\* The character class [0-9a-fA-F] of the regular expressions.
isHexDigit(c) ==
    \E v \in 1..16 : HexDigits[v] = c \/ UpperHexDigits[v] = c

\* The value parseInt(c, 16) gives a hexadecimal digit.
digitValue(c) ==
    (CHOOSE v \in 1..16 : HexDigits[v] = c \/ UpperHexDigits[v] = c) - 1

\* isBytes: /^0x([0-9a-fA-F]{2})*$/ on a string.
isBytes(s) ==
    /\ Len(s) >= 2
    /\ SubSeq(s, 1, 2) = Prefix0x
    /\ (Len(s) - 2) % 2 = 0
    /\ \A i \in 3..Len(s) : isHexDigit(s[i])

\* isAddress: /^0x[0-9a-fA-F]{40}$/ on a string.
isAddress(s) ==
    /\ Len(s) = 42
    /\ SubSeq(s, 1, 2) = Prefix0x
    /\ \A i \in 3..Len(s) : isHexDigit(s[i])

\* toHexByte: byte.toString(16).padStart(2, "0").
toHexByte(byte) == <<HexDigits[(byte \div 16) + 1], HexDigits[(byte % 16) + 1]>>

\* toBytes: "0x" followed by the two digits of every byte.
toBytes(array) ==
    [k \in 1..(2 + 2 * Len(array)) |->
        IF k <= 2 THEN Prefix0x[k]
        ELSE toHexByte(array[(k - 1) \div 2])[((k - 1) % 2) + 1]]

\* value.toString(16) of a positive integer.
RECURSIVE toString16(_)
toString16(value) ==
    IF value < 16 THEN <<HexDigits[value + 1]>>
    ELSE Append(toString16(value \div 16), HexDigits[(value % 16) + 1])

\* toHex: the empty string for zero, else the hexadecimal digits padded
\* with one "0" to an even number of them.
toHex(value) ==
    IF value = 0 THEN <<>>
    ELSE LET hex == toString16(value)
         IN  IF Len(hex) % 2 = 0 THEN hex ELSE <<HexDigits[1]>> \o hex

\* setHex: array[i] = parseInt(hex.slice(2i, 2i + 2), 16) for every i below
\* hex.length / 2; a write past the end of a typed array is ignored.
setHex(array, hex) ==
    [i \in 1..Len(array) |->
        IF 2 * (i - 1) < Len(hex)
        THEN IF 2 * i <= Len(hex)
             THEN 16 * digitValue(hex[2 * i - 1]) + digitValue(hex[2 * i])
             ELSE digitValue(hex[2 * i - 1])
        ELSE array[i]]

\* new Uint8Array(length): zero-filled.
newUint8Array(length) == [i \in 1..length |-> 0]

\* bytes.replace(/^0x/, "").
stripPrefix(s) ==
    IF Len(s) >= 2 /\ SubSeq(s, 1, 2) = Prefix0x
    THEN SubSeq(s, 3, Len(s)) ELSE s

\* toByteArray of a string: the bytes its digits after "0x" denote.
toByteArray_string(value) ==
    LET hex == stripPrefix(value)
    IN  setHex(newUint8Array(Len(hex) \div 2), hex)

\* toByteArray of a number: the bytes toHex(value) denotes.
toByteArray_number(value) ==
    LET hex == toHex(value)
    IN  setHex(newUint8Array(Len(hex) \div 2), hex)

\* A bigint too wide for a number of the model is its sign and its
\* magnitude in big-endian bytes without leading zeros.
bigint(negative, magnitude) == [neg |-> negative, mag |-> magnitude]

\* value.toString(16) of a bigint that is not negative: two digits for
\* every byte but the first, which gives one digit if it is below 16.
toString16_bigint(value) ==
    LET digits == [k \in 1..(2 * Len(value.mag)) |->
                      toHexByte(value.mag[(k + 1) \div 2])[((k - 1) % 2) + 1]]
    IN  IF digits # <<>> /\ digits[1] = HexDigits[1]
        THEN Tail(digits) ELSE digits

\* toHex of a bigint that is not negative.
toHex_bigint(value) ==
    IF value.mag = <<>> THEN <<>>
    ELSE LET hex == toString16_bigint(value)
         IN  IF Len(hex) % 2 = 0 THEN hex ELSE <<HexDigits[1]>> \o hex

\* toByteArray of a bigint that is not negative.
toByteArray_bigint(value) ==
    LET hex == toHex_bigint(value)
    IN  setHex(newUint8Array(Len(hex) \div 2), hex)

\* The value Number(s) and BigInt(s) read from the digits after "0x".
RECURSIVE hexValue(_)
hexValue(digits) ==
    IF digits = <<>> THEN 0
    ELSE 16 * hexValue(SubSeq(digits, 1, Len(digits) - 1))
            + digitValue(digits[Len(digits)])

\* NaN, which no length or offset equals.
NaN == -1

\* Number(s) of a Bytes string: NaN for "0x", which has no digits.
Number(s) == IF Len(s) = 2 THEN NaN ELSE hexValue(SubSeq(s, 3, Len(s)))

\* a + b on numbers one of which may be NaN.
Plus(a, b) == IF a = NaN \/ b = NaN THEN NaN ELSE a + b

\* ToIntegerOrInfinity, applied by slice to its arguments: NaN becomes 0.
ToInteger(n) == IF n = NaN THEN 0 ELSE n

(***************************************************************************)
(* RLP codec (rlp.ts).  A value handed to encode is a record with a tag t: *)
(* "list" (items the sequence of its values), "bytes" (v a Uint8Array),    *)
(* "str" (v a Bytes string), "num" (v the one-element sequence of a number *)
(* or small bigint) or "big" (v the magnitude of a bigint that is not      *)
(* negative).  A decoded value is a "str" or a "list" of decoded values.   *)
(***************************************************************************)
Str(s) == [t |-> "str", v |-> s, items |-> <<>>]
Bin(b) == [t |-> "bytes", v |-> b, items |-> <<>>]
Num(n) == [t |-> "num", v |-> <<n>>, items |-> <<>>]
Big(n) == [t |-> "big", v |-> n.mag, items |-> <<>>]
List(l) == [t |-> "list", v |-> <<>>, items |-> l]

\* The chunks laid one after the other.
RECURSIVE concat(_)
concat(chunks) ==
    IF chunks = <<>> THEN <<>> ELSE Head(chunks) \o concat(Tail(chunks))

\* Mutant of lengthPrefix: the short form is used up to 56 payload bytes.
lengthPrefix_offByOne(offset, chunks) ==
    LET payload == concat(chunks)
        length == Len(payload)
    IN  IF length <= 56
        THEN <<offset + length>> \o payload
        ELSE LET lbytes == toHex(length)
                 lsize == Len(lbytes) \div 2
             IN  <<offset + 55 + lsize>>
                    \o setHex(newUint8Array(lsize), lbytes) \o payload

\* lengthPrefix: offset + length for a payload shorter than 56 bytes, else
\* offset + 55 + lsize and the length in lsize big-endian bytes.
lengthPrefix(offset, chunks) ==
    LET payload == concat(chunks)
        length == Len(payload)
    IN  IF length < 56
        THEN <<offset + length>> \o payload
        ELSE LET lbytes == toHex(length)
                 lsize == Len(lbytes) \div 2
             IN  <<(offset + 55 + lsize) % 256>>
                    \o setHex(newUint8Array(lsize), lbytes) \o payload

\* encode of a value of the type Encode.
RECURSIVE rlp_encode(_)
rlp_encode(value) ==
    IF value.t = "list"
    THEN lengthPrefix(192,
            [i \in 1..Len(value.items) |-> rlp_encode(value.items[i])])
    ELSE IF value.t = "bytes"
    THEN IF Len(value.v) = 1 /\ value.v[1] < 128
         THEN value.v
         ELSE lengthPrefix(128, <<value.v>>)
    ELSE IF value.t = "str"
    THEN rlp_encode(Bin(toByteArray_string(value.v)))
    ELSE IF value.t = "num"
    THEN rlp_encode(Bin(toByteArray_number(value.v[1])))
    ELSE rlp_encode(Bin(toByteArray_bigint(bigint(FALSE, value.v))))

\* The loop of next never ends: an iteration left remaining as it was.
Hang == [kind |-> "hang"]

\* prefixedLength: the payload and the rest that the length prefix
\* announces, both cut with slice, which clamps and does not throw; nothing
\* in the try block throws, so the catch clause is never entered.
prefixedLength(tag, offset, bytes) ==
    LET long == offset + 55
    IN  IF tag <= long
        THEN LET length == tag - offset
                 end == 1 + length
             IN  [payload |-> Slice(bytes, 1, end),
                  rest |-> Slice(bytes, end, Len(bytes))]
        ELSE LET lsize == tag - long
                 start == 1 + lsize
                 length == Number(toBytes(Slice(bytes, 1, start)))
                 end == Plus(start, length)
             IN  [payload |-> Slice(bytes, start, ToInteger(end)),
                  rest |-> Slice(bytes, ToInteger(end), Len(bytes))]

\* next: the item at the head of the bytes and the bytes after it.
RECURSIVE rlp_next(_)
RECURSIVE rlp_items(_)
rlp_next(bytes) ==
    IF Len(bytes) = 0 THEN Throw("invalid RLP data: empty input")
    ELSE LET tag == bytes[1]
         IN  IF tag <= 127
             THEN [kind |-> "ok", item |-> Str(toBytes(<<tag>>)),
                   rest |-> Slice(bytes, 1, Len(bytes))]
             ELSE IF tag <= 191
             THEN LET p == prefixedLength(tag, 128, bytes)
                  IN  [kind |-> "ok", item |-> Str(toBytes(p.payload)),
                       rest |-> p.rest]
             ELSE LET p == prefixedLength(tag, 192, bytes)
                      items == rlp_items(p.payload)
                  IN  IF items.kind # "ok" THEN items
                      ELSE [kind |-> "ok", item |-> List(items.value),
                            rest |-> p.rest]

\* The while loop of next over the payload of a list.  next is a function
\* of its argument, so an iteration that returns the bytes it was given
\* repeats for ever.
rlp_items(remaining) ==
    IF Len(remaining) = 0 THEN Ok(<<>>)
    ELSE LET r == rlp_next(remaining)
         IN  IF r.kind # "ok" THEN r
             ELSE IF r.rest = remaining THEN Hang
             ELSE LET more == rlp_items(r.rest)
                  IN  IF more.kind # "ok" THEN more
                      ELSE Ok(<<r.item>> \o more.value)

\* decode: the item at the head, if no bytes follow it.
rlp_decode(bytes) ==
    LET r == rlp_next(bytes)
    IN  IF r.kind # "ok" THEN r
        ELSE IF Len(r.rest) > 0
        THEN Throw("invalid RLP data: trailing bytes")
        ELSE Ok(r.item)

(***************************************************************************)
(* Safe-Tx codec (safe.ts).  A transaction is a record of its nine payload *)
(* fields: addresses and data are Bytes strings, the integers are numbers, *)
(* the operation is 0 (CALL) or 1 (DELEGATECALL).                          *)
(***************************************************************************)
CALL == 0
DELEGATECALL == 1

\* Mutant of safe_encode: baseGas is written before safeTxGas.
safe_encode_swapped(transaction) ==
    rlp_encode(List(<<
        Str(transaction.to),
        Num(transaction.value),
        Str(transaction.data),
        Num(transaction.operation),
        Num(transaction.baseGas),
        Num(transaction.safeTxGas),
        Num(transaction.gasPrice),
        Str(transaction.gasToken),
        Str(transaction.refundReceiver)>>))

\* encode: the nine fields as one RLP list.
safe_encode(transaction) ==
    rlp_encode(List(<<
        Str(transaction.to),
        Num(transaction.value),
        Str(transaction.data),
        Num(transaction.operation),
        Num(transaction.safeTxGas),
        Num(transaction.baseGas),
        Num(transaction.gasPrice),
        Str(transaction.gasToken),
        Str(transaction.refundReceiver)>>))

\* The guards of asAddress, asBytes and asBigInt: a decoded list is not a
\* string and fails them all.
okAddress(v) == v.t = "str" /\ isAddress(v.v)
okBytes(v) == v.t = "str" /\ isBytes(v.v)
\* The guard of asOperation: "0x" or "0x01".
okOperation(v) ==
    v.t = "str" /\ (v.v = Prefix0x \/ v.v = Prefix0x \o <<48, 49>>)

\* asBigInt: 0n for "0x", else BigInt(v).
asBigInt(v) ==
    IF v.v = Prefix0x THEN 0 ELSE hexValue(SubSeq(v.v, 3, Len(v.v)))

\* asOperation.
asOperation(v) == IF v.v = Prefix0x THEN CALL ELSE DELEGATECALL

\* decode: the fields are converted in the order of the object literal; the
\* first conversion that fails throws.
safe_decode(encodedBytes) ==
    LET fields == rlp_decode(encodedBytes)
    IN  IF fields.kind # "ok" THEN fields
        ELSE IF fields.value.t # "list" \/ Len(fields.value.items) # 9
        THEN Throw("invalid RLP-encoded Safe transaction")
        ELSE
        LET f == fields.value.items
        IN  IF ~okAddress(f[1]) THEN Throw("invalid address field")
            ELSE IF ~okBytes(f[2]) THEN Throw("invalid bigint field")
            ELSE IF ~okBytes(f[3]) THEN Throw("invalid bytes field")
            ELSE IF ~okOperation(f[4]) THEN Throw("invalid operation field")
            ELSE IF ~okBytes(f[5]) THEN Throw("invalid bigint field")
            ELSE IF ~okBytes(f[6]) THEN Throw("invalid bigint field")
            ELSE IF ~okBytes(f[7]) THEN Throw("invalid bigint field")
            ELSE IF ~okAddress(f[8]) THEN Throw("invalid address field")
            ELSE IF ~okAddress(f[9]) THEN Throw("invalid address field")
            ELSE Ok([to |-> f[1].v,
                     value |-> asBigInt(f[2]),
                     data |-> f[3].v,
                     operation |-> asOperation(f[4]),
                     safeTxGas |-> asBigInt(f[5]),
                     baseGas |-> asBigInt(f[6]),
                     gasPrice |-> asBigInt(f[7]),
                     gasToken |-> f[8].v,
                     refundReceiver |-> f[9].v])

(***************************************************************************)
(* The state of the codecs, of encrypt and decrypt, and of extract, argify *)
(* and the circuit before any of them is called.                           *)
(***************************************************************************)
TxeIdle ==
    /\ txe = [L |-> 0, N |-> 0, ivLen |-> 0, seed |-> 0]
    /\ encoded = "none"
    /\ extra = <<>>
    /\ keep = -1
    /\ decoded = "none"

RlpIdle ==
    /\ source = "none"
    /\ tree = None
    /\ wire = <<>>
    /\ rlpOut = None
    /\ safeOut = None

EncIdle ==
    /\ encRecipients = <<>>
    /\ rng = 0
    /\ encCek = <<>>
    /\ encEpks = <<>>
    /\ encJwes = <<>>
    /\ encPrivs = <<>>
    /\ encOut = None
    /\ stored = <<>>
    /\ decKey = 0
    /\ decOut = None

CallerIdle ==
    /\ history = <<>>
    /\ mem = None

CircuitIdle ==
    /\ extractArgs = None
    /\ extracted = None
    /\ circuitInput = None
    /\ argv = None
    /\ verdict = "none"

(***************************************************************************)
(* Inputs of the TXE codec.                                                *)
(***************************************************************************)
Fill(len, seed) == [i \in 1..len |-> (seed + i) % 256]

Envelope(L, N, ivLen, seed) ==
    [ciphertext |-> Fill(L, seed),
     iv |-> Fill(ivLen, seed + 64),
     tag |-> Fill(TAG_LEN, seed + 128),
     recipients |->
        [i \in 1..N |->
            [encryptedKey |-> Fill(ENCRYPTED_KEY_LEN, seed + 7 * i),
             ephemeralPublicKey |->
                Fill(EPHEMERAL_PUBLIC_KEY_LEN, seed + 7 * i + 3)]]]

\* The envelopes handed to encode: the small ones, the ones at and past the
\* limits of the two counters, and one with a short iv.
EnvelopeParameters ==
    {[L |-> L, N |-> N, ivLen |-> IV_LEN, seed |-> s] :
        L \in 0..MaxSmallLen, N \in 0..MaxSmallCount, s \in 0..MaxSeed}
    \cup {[L |-> L, N |-> 1, ivLen |-> IV_LEN, seed |-> 0] :
            L \in {258, UINT16 - 1, UINT16, UINT16 + 1}}
    \cup {[L |-> 1, N |-> N, ivLen |-> IV_LEN, seed |-> 0] :
            N \in {UINT8, UINT8 + 1}}
    \cup {[L |-> UINT16 - 1, N |-> UINT8, ivLen |-> IV_LEN, seed |-> 0]}
    \cup {[L |-> 1, N |-> 1, ivLen |-> IV_LEN - 1, seed |-> 0]}

\* The envelope handed to encode, what encode makes of it, the bytes handed
\* to decode and what decode makes of them.
Input == Envelope(txe.L, txe.N, txe.ivLen, txe.seed)
Encoded == txe_encode(Input)
Data ==
    LET blob == Encoded.value
    IN  IF keep >= 0 THEN SubSeq(blob, 1, keep)
        ELSE IF extra = <<>> THEN blob ELSE blob \o extra
Decoded == txe_decode(Data)

InitTXE ==
    /\ pc = "start"
    /\ txe \in EnvelopeParameters
    /\ encoded = "none"
    /\ extra = <<>>
    /\ keep = -1
    /\ decoded = "none"
    /\ source = "none"
    /\ tree = None
    /\ safeTx = None
    /\ wire = <<>>
    /\ rlpOut = None
    /\ safeOut = None
    /\ EncIdle
    /\ CircuitIdle
    /\ CallerIdle

\* The caller encodes the envelope.
Encode ==
    /\ pc = "start"
    /\ encoded' = Encoded.kind
    /\ pc' = IF encoded' = "ok" THEN "encoded" ELSE "failed"
    /\ UNCHANGED <<txe, extra, keep, decoded, rlpVars, callerVars, encVars,
                   circuitVars>>

\* A byte is appended to the blob before it is decoded.
Extend ==
    /\ pc = "encoded"
    /\ keep = -1
    /\ Len(extra) < MaxExtra
    /\ \E b \in {0, 255} : extra' = Append(extra, b)
    /\ UNCHANGED <<pc, txe, encoded, keep, decoded, rlpVars, callerVars,
                   encVars, circuitVars>>

\* The blob is cut short before it is decoded.
CutPoints(L, len) == {0, 1, 2, 2 + L, 29 + L, 30 + L, 31 + L, len - 2, len - 1}

Truncate ==
    /\ pc = "encoded"
    /\ keep = -1
    /\ extra = <<>>
    /\ \E k \in CutPoints(txe.L, Len(Encoded.value)) :
          /\ k >= 0
          /\ k < Len(Encoded.value)
          /\ keep' = k
    /\ UNCHANGED <<pc, txe, encoded, extra, decoded, rlpVars, callerVars,
                   encVars, circuitVars>>

\* The caller decodes the bytes.
Decode ==
    /\ pc = "encoded"
    /\ decoded' = Decoded.kind
    /\ pc' = "decoded"
    /\ UNCHANGED <<txe, encoded, extra, keep, rlpVars, callerVars, encVars,
                   circuitVars>>

NextTXE == Encode \/ Extend \/ Truncate \/ Decode

SpecTXE == InitTXE /\ [][NextTXE]_vars

(***************************************************************************)
(* The TXE codec on the caller's memory.  The heap is the sequence of the  *)
(* array buffers allocated so far, a buffer being the sequence of its      *)
(* bytes; a Uint8Array is a view of a buffer: the buffer's number, an      *)
(* offset into it and a length.  A call that allocates returns the new     *)
(* heap with its value.                                                    *)
(***************************************************************************)
TypedArray(buffer, byteOffset, length) ==
    [buffer |-> buffer, byteOffset |-> byteOffset, length |-> length]

\* The bytes seen through a typed array.
bytesOf(heap, array) ==
    SubSeq(heap[array.buffer], array.byteOffset + 1,
           array.byteOffset + array.length)

\* The bytes are stored in the buffer of a typed array, from its start.
store(heap, array, bytes) ==
    [heap EXCEPT ![array.buffer] =
        [k \in 1..Len(@) |->
            IF k - array.byteOffset \in 1..Len(bytes)
            THEN bytes[k - array.byteOffset] ELSE @[k]]]

\* new ArrayBuffer(length) and new Uint8Array(buffer): a zero-filled buffer
\* at the end of the heap and the view of all of it.
ArrayBuffer(heap, length) ==
    [heap |-> Append(heap, newUint8Array(length)),
     array |-> TypedArray(Len(heap) + 1, 0, length)]

\* subarray(begin): a view of the same buffer, from begin to the end.
subarray(array, begin) ==
    LET from == Min(begin, array.length)
    IN  TypedArray(array.buffer, array.byteOffset + from, array.length - from)

\* target.set(source): the bytes of the source are copied to the start of
\* the target; a source longer than the target is a RangeError.
set(heap, target, from) ==
    IF from.length > target.length THEN Throw("RangeError")
    ELSE Ok(store(heap, target, bytesOf(heap, from)))

\* slice(start, end): a new buffer with a copy of the bytes, and its view.
slice(heap, array, start, end) ==
    LET bytes == Slice(bytesOf(heap, array), start, end)
    IN  [heap |-> Append(heap, bytes),
         array |-> TypedArray(Len(heap) + 1, 0, Len(bytes))]

\* The fields of an envelope in the order of the blob, and the envelope of
\* the byte sequences seen through an envelope of typed arrays.
arraysOf(envelope) ==
    <<envelope.ciphertext, envelope.iv, envelope.tag>>
    \o [k \in 1..(2 * Len(envelope.recipients)) |->
            IF k % 2 = 1
            THEN envelope.recipients[(k + 1) \div 2].encryptedKey
            ELSE envelope.recipients[k \div 2].ephemeralPublicKey]

contents(heap, envelope) ==
    [ciphertext |-> bytesOf(heap, envelope.ciphertext),
     iv |-> bytesOf(heap, envelope.iv),
     tag |-> bytesOf(heap, envelope.tag),
     recipients |->
        [i \in 1..Len(envelope.recipients) |->
            [encryptedKey |->
                bytesOf(heap, envelope.recipients[i].encryptedKey),
             ephemeralPublicKey |->
                bytesOf(heap, envelope.recipients[i].ephemeralPublicKey)]]]

\* The writes of encode in their order: the position the cursor gives, and
\* the bytes a DataView stores there or the array that set copies there.
writesOf(envelope) ==
    LET L == envelope.ciphertext.length
        N == Len(envelope.recipients)
        first == 2 + L + IV_LEN + TAG_LEN + 1
        size == ENCRYPTED_KEY_LEN + EPHEMERAL_PUBLIC_KEY_LEN
    IN  <<[at |-> 0, bytes |-> setUint16(L)],
          [at |-> 2, array |-> envelope.ciphertext],
          [at |-> 2 + L, array |-> envelope.iv],
          [at |-> 2 + L + IV_LEN, array |-> envelope.tag],
          [at |-> 2 + L + IV_LEN + TAG_LEN, bytes |-> setUint8(N - 1)]>>
        \o [k \in 1..(2 * N) |->
                IF k % 2 = 1
                THEN [at |-> first + ((k - 1) \div 2) * size,
                      array |-> envelope.recipients[(k + 1) \div 2]
                                    .encryptedKey]
                ELSE [at |-> first + ((k - 2) \div 2) * size
                                + ENCRYPTED_KEY_LEN,
                      array |-> envelope.recipients[k \div 2]
                                    .ephemeralPublicKey]]

\* The writes are made one after the other through data.
RECURSIVE writeAll(_, _, _)
writeAll(heap, data, writes) ==
    IF writes = <<>> THEN Ok(heap)
    ELSE LET w == Head(writes)
             target == subarray(data, w.at)
             done == IF "array" \in DOMAIN w
                     THEN set(heap, target, w.array)
                     ELSE Ok(store(heap, target, w.bytes))
         IN  IF done.kind # "ok" THEN done
             ELSE writeAll(done.value, data, Tail(writes))

\* encode: a buffer of the size of the blob is allocated and every field is
\* copied into it; the value is the view of the whole buffer.
encodeArrays(heap, envelope) ==
    IF ~isTXE(contents(heap, envelope)) THEN Throw("invalid TXE")
    ELSE LET N == Len(envelope.recipients)
             new == ArrayBuffer(heap,
                        2 + envelope.ciphertext.length + IV_LEN + TAG_LEN + 1
                          + N * (ENCRYPTED_KEY_LEN
                                   + EPHEMERAL_PUBLIC_KEY_LEN))
             written == writeAll(new.heap, new.array, writesOf(envelope))
         IN  IF written.kind # "ok" THEN written
             ELSE [kind |-> "ok", heap |-> written.value,
                   value |-> new.array]

\* Mutant of takeArray: the field is a view of the blob, as subarray gives.
takeArray_view(heap, data, start, len) ==
    LET from == Min(start, data.length)
        to == Min(start + len, data.length)
    IN  [heap |-> heap,
         array |-> TypedArray(data.buffer, data.byteOffset + from,
                              to - from)]

\* take(len) at cursor position start: data.slice(start, start + len).
takeArray(heap, data, start, len) == slice(heap, data, start, start + len)

\* The fields are taken one after the other, each from the heap the one
\* before left.
RECURSIVE takeEach(_, _, _)
takeEach(heap, data, fields) ==
    IF fields = <<>> THEN [heap |-> heap, arrays |-> <<>>]
    ELSE LET f == Head(fields)
             taken == takeArray(heap, data, f.start, f.len)
             rest == takeEach(taken.heap, data, Tail(fields))
         IN  [heap |-> rest.heap, arrays |-> <<taken.array>> \o rest.arrays]

\* decode: the lengths are read through a DataView of the blob's bytes and
\* every field is taken in the order of the blob.
decodeArrays(heap, data) ==
    LET d == bytesOf(heap, data)
        ciphertextLength == getUint16(d, 0)
    IN  IF ciphertextLength.kind = "throw" THEN ciphertextLength
        ELSE
        LET L == ciphertextLength.value
            countAt == 2 + L + IV_LEN + TAG_LEN
            head == takeEach(heap, data,
                        <<[start |-> 2, len |-> L],
                          [start |-> 2 + L, len |-> IV_LEN],
                          [start |-> 2 + L + IV_LEN, len |-> TAG_LEN]>>)
            encryptedKeysCountMinusOne == getUint8(d, countAt)
        IN  IF encryptedKeysCountMinusOne.kind = "throw"
            THEN encryptedKeysCountMinusOne
            ELSE
            LET N == encryptedKeysCountMinusOne.value + 1
                size == ENCRYPTED_KEY_LEN + EPHEMERAL_PUBLIC_KEY_LEN
                tail ==
                    takeEach(head.heap, data,
                        [k \in 1..(2 * N) |->
                            IF k % 2 = 1
                            THEN [start |-> countAt + 1
                                              + ((k - 1) \div 2) * size,
                                  len |-> ENCRYPTED_KEY_LEN]
                            ELSE [start |-> countAt + 1
                                              + ((k - 2) \div 2) * size
                                              + ENCRYPTED_KEY_LEN,
                                  len |-> EPHEMERAL_PUBLIC_KEY_LEN]])
            IN  [kind |-> "ok", heap |-> tail.heap,
                 value |->
                    [ciphertext |-> head.arrays[1],
                     iv |-> head.arrays[2],
                     tag |-> head.arrays[3],
                     recipients |->
                        [i \in 1..N |->
                            [encryptedKey |-> tail.arrays[2 * i - 1],
                             ephemeralPublicKey |-> tail.arrays[2 * i]]]]]

(***************************************************************************)
(* The caller of the codec and its memory.                                 *)
(***************************************************************************)
\* The envelopes in memory: the small valid ones and one with a short iv.
MemoryParameters ==
    {[L |-> L, N |-> N, ivLen |-> IV_LEN, seed |-> s] :
        L \in 0..MaxSmallLen, N \in 1..MaxSmallCount, s \in 0..MaxSeed}
    \cup {[L |-> 1, N |-> 1, ivLen |-> IV_LEN - 1, seed |-> 0]}

\* The envelope whose fields are the typed arrays of the sequence.
envelopeOf(arrays) ==
    [ciphertext |-> arrays[1],
     iv |-> arrays[2],
     tag |-> arrays[3],
     recipients |->
        [i \in 1..((Len(arrays) - 3) \div 2) |->
            [encryptedKey |-> arrays[2 + 2 * i],
             ephemeralPublicKey |-> arrays[3 + 2 * i]]]]

RECURSIVE Sum(_)
Sum(lengths) == IF lengths = <<>> THEN 0 ELSE Head(lengths) + Sum(Tail(lengths))

\* The memory in which every field of the envelope has a buffer of its own
\* ("separate"), or in which the fields are views of one buffer, one after
\* the other ("shared").
Memory(envelope, layout) ==
    LET fields == arraysOf(envelope)
        before(k) == Sum([j \in 1..(k - 1) |-> Len(fields[j])])
    IN  IF layout = "separate"
        THEN [heap |-> fields,
              input |-> envelopeOf([k \in 1..Len(fields) |->
                            TypedArray(k, 0, Len(fields[k]))])]
        ELSE [heap |-> <<concat(fields)>>,
              input |-> envelopeOf([k \in 1..Len(fields) |->
                            TypedArray(1, before(k), Len(fields[k]))])]

InitMem ==
    /\ pc = "start"
    /\ txe \in MemoryParameters
    /\ encoded = "none"
    /\ extra = <<>>
    /\ keep = -1
    /\ decoded = "none"
    /\ RlpIdle
    /\ safeTx = None
    /\ EncIdle
    /\ CircuitIdle
    /\ history = <<>>
    /\ \E layout \in {"separate", "shared"} :
          LET memory == Memory(Input, layout)
          IN  mem = [layout |-> layout, heap |-> memory.heap,
                     input |-> memory.input, blob |-> None,
                     fields |-> None, last |-> None]

\* The caller encodes the envelope in its memory.
EncodeArrays ==
    /\ pc = "start"
    /\ LET done == encodeArrays(mem.heap, mem.input)
       IN  /\ encoded' = done.kind
           /\ IF done.kind = "ok"
              THEN /\ mem' = [mem EXCEPT !.heap = done.heap,
                                         !.blob = done.value]
                   /\ pc' = "encoded"
              ELSE /\ mem' = mem
                   /\ pc' = "failed"
    /\ UNCHANGED <<txe, extra, keep, decoded, rlpVars, encVars, circuitVars,
                   history>>

\* The caller decodes the blob in its memory.
DecodeArrays ==
    /\ pc = "encoded"
    /\ LET done == decodeArrays(mem.heap, mem.blob)
       IN  /\ decoded' = done.kind
           /\ IF done.kind = "ok"
              THEN /\ mem' = [mem EXCEPT !.heap = done.heap,
                                         !.fields = done.value]
                   /\ pc' = "decoded"
              ELSE /\ mem' = mem
                   /\ pc' = "failed"
    /\ UNCHANGED <<txe, encoded, extra, keep, rlpVars, encVars, circuitVars,
                   history>>

\* The typed arrays the caller holds: the fields of the envelope it
\* encoded, the blob, and the fields of the envelope decode returned.
Held ==
    {[of |-> "input", k |-> k, array |-> arraysOf(mem.input)[k]] :
        k \in 1..Len(arraysOf(mem.input))}
    \cup (IF mem.blob = None THEN {}
          ELSE {[of |-> "blob", k |-> 0, array |-> mem.blob]})
    \cup (IF mem.fields = None THEN {}
          ELSE {[of |-> "decoded", k |-> k,
                 array |-> arraysOf(mem.fields)[k]] :
                   k \in 1..Len(arraysOf(mem.fields))})

\* The caller inverts the first or the last byte of an array it holds.
Write ==
    /\ pc \in {"encoded", "decoded"}
    /\ \E target \in Held :
          /\ target.array.length > 0
          /\ \E index \in {0, target.array.length - 1} :
                LET at == subarray(target.array, index)
                    byte == bytesOf(mem.heap, target.array)[index + 1]
                IN  mem' = [mem EXCEPT
                              !.heap = store(mem.heap, at, <<255 - byte>>),
                              !.last = [target |-> target,
                                        heap |-> mem.heap]]
    /\ pc' = "written"
    /\ UNCHANGED <<txeVars, rlpVars, encVars, circuitVars, history>>

NextMem == EncodeArrays \/ DecodeArrays \/ Write

SpecMem == InitMem /\ [][NextMem]_vars

(***************************************************************************)
(* Inputs of the RLP and Safe-Tx codecs.                                   *)
(***************************************************************************)
\* All sequences over S with at most n elements.
SeqsUpTo(S, n) == UNION {[1..k -> S] : k \in 0..n}

\* Bytes of raw inputs: single bytes, short and long string tags, short and
\* long list tags.
RawBytes == {0, 1, 127, 128, 129, 130, 184, 185, 192, 193, 194, 248}
RawInputs == SeqsUpTo(RawBytes, MaxRawLen)

\* Byte strings handed to encode: around the single-byte rule and around
\* the 55/56 and 255/256 length boundaries.
ByteStrings ==
    {<<0>>, <<127>>, <<128>>, <<255>>}
    \cup {Fill(len, s) : len \in {0, 1, 2, 54, 55, 56, 57, 255, 256},
                         s \in 0..MaxSeed}

\* Integers handed to encode: around the boundaries of their byte lengths.
IntValues == {0, 1, 127, 128, 255, 256, 65535, 65536, 16777215, 16777216}

Leaves ==
    {Bin(b) : b \in ByteStrings}
    \cup {Str(toBytes(b)) : b \in ByteStrings}
    \cup {Num(n) : n \in IntValues}

\* Items of lists: with Bin(Fill(53, 0)), whose encoding has 54 bytes, the
\* payload of a list reaches 54, 55, 56 and 57 bytes.
Items ==
    {Bin(<<>>), Bin(<<1>>), Bin(<<128>>), Num(0), Num(256),
     Str(Prefix0x \o <<65, 98>>), Bin(Fill(53, 0))}

FlatLists == {List(l) : l \in SeqsUpTo(Items, MaxItems)}
NestedLists ==
    {List(<<l>>) : l \in FlatLists} \cup {List(<<l, Num(1)>>) : l \in FlatLists}
    \cup {List(<<Bin(<<7>>), l, l>>) : l \in FlatLists}

\* Lists of fields handed to the Safe-Tx decoder after RLP encoding: the
\* nine fields of a transaction, lists with one field replaced by an item of
\* another shape, and lists with a field missing or one too many.
BaseFields ==
    <<Bin(Fill(20, 0)), Num(2), Bin(<<3, 4>>), Num(1), Num(7), Num(8),
      Num(9), Bin(Fill(20, 1)), Bin(Fill(20, 2))>>

\* The long variants stay out of the integer fields, whose values are kept
\* below 2^31.
FieldVariants(i) ==
    {Bin(<<>>), Bin(<<0>>), Bin(<<1>>), Bin(<<2>>), Bin(<<1, 0>>),
     Bin(<<0, 2>>), List(<<>>), List(<<Bin(<<1>>)>>)}
    \cup IF i \in {2, 5, 6, 7} THEN {}
         ELSE {Bin(Fill(19, 0)), Bin(Fill(20, 3)), Bin(Fill(21, 0))}

FieldLists ==
    UNION {{List([BaseFields EXCEPT ![i] = f]) : f \in FieldVariants(i)} :
              i \in 1..9}
    \cup {List(SubSeq(BaseFields, 1, 8)), List(Append(BaseFields, Num(1)))}

Trees == Leaves \cup FlatLists \cup NestedLists \cup FieldLists

\* Addresses: 0x00..00, 0xa1..a1 with 0xa2..a2 and 0xa3..a3, and addresses
\* written with upper-case digits (0xAb..Ab, 0x0F..0F, 0xf0..f0).
Address(hi, lo) ==
    [k \in 1..42 |->
        IF k <= 2 THEN Prefix0x[k]
        ELSE IF k % 2 = 1 THEN hi ELSE lo]

AddressTriples ==
    {<<Address(48, 48), Address(48, 48), Address(48, 48)>>,
     <<Address(97, 49), Address(97, 50), Address(97, 51)>>,
     <<Address(65, 98), Address(48, 70), Address(102, 48)>>}

GasTriples == {<<0, 0, 0>>, <<7, 8, 9>>, <<256, 1, 65535>>}

DataStrings ==
    {toBytes(b) : b \in {<<>>, <<0>>, <<127>>, <<128>>, <<3, 4, 5, 6>>,
                         Fill(55, 0), Fill(56, 0)}}
    \cup {Prefix0x \o <<67, 48, 100, 69>>}

\* Transactions of the type SafeTransaction: encode reads the nine payload
\* fields of the object it is given and leaves its nonce alone.
Transactions ==
    {[to |-> a[1], value |-> v, data |-> d, operation |-> o,
      safeTxGas |-> g[1], baseGas |-> g[2], gasPrice |-> g[3],
      gasToken |-> a[2], refundReceiver |-> a[3], nonce |-> n] :
        a \in AddressTriples, v \in IntValues, d \in DataStrings,
        o \in {CALL, DELEGATECALL}, g \in GasTriples, n \in {0, 1337}}

InitRLP ==
    /\ txe = [L |-> 0, N |-> 0, ivLen |-> 0, seed |-> 0]
    /\ encoded = "none"
    /\ extra = <<>>
    /\ keep = -1
    /\ decoded = "none"
    /\ rlpOut = None
    /\ safeOut = None
    /\ EncIdle
    /\ CircuitIdle
    /\ CallerIdle
    /\ \/ /\ source = "raw"
          /\ pc = "encoded"
          /\ wire \in RawInputs
          /\ tree = None
          /\ safeTx = None
       \/ /\ source = "tree"
          /\ pc = "start"
          /\ wire = <<>>
          /\ tree \in Trees
          /\ safeTx = None
       \/ /\ source = "tx"
          /\ pc = "start"
          /\ wire = <<>>
          /\ tree = None
          /\ safeTx \in Transactions

\* The caller RLP-encodes the value.
RlpEncode ==
    /\ pc = "start"
    /\ source = "tree"
    /\ wire' = rlp_encode(tree)
    /\ pc' = "encoded"
    /\ UNCHANGED <<txeVars, callerVars, encVars, circuitVars, source,
                    tree, safeTx, rlpOut, safeOut>>

\* The caller encodes the transaction.
SafeEncode ==
    /\ pc = "start"
    /\ source = "tx"
    /\ wire' = safe_encode(safeTx)
    /\ pc' = "encoded"
    /\ UNCHANGED <<txeVars, callerVars, encVars, circuitVars, source,
                    tree, safeTx, rlpOut, safeOut>>

\* The caller RLP-decodes the bytes.
RlpDecode ==
    /\ pc = "encoded"
    /\ rlpOut' = rlp_decode(wire)
    /\ pc' = "decoded"
    /\ UNCHANGED <<txeVars, callerVars, encVars, circuitVars, source,
                    tree, safeTx, wire, safeOut>>

\* The caller decodes the bytes as a transaction.
SafeDecode ==
    /\ pc = "encoded"
    /\ safeOut' = safe_decode(wire)
    /\ pc' = "decoded"
    /\ UNCHANGED <<txeVars, callerVars, encVars, circuitVars, source,
                    tree, safeTx, wire, rlpOut>>

NextRLP == RlpEncode \/ SafeEncode \/ RlpDecode \/ SafeDecode

SpecRLP == InitRLP /\ [][NextRLP]_vars

(***************************************************************************)
(* base64url without padding (jose), which encryption.ts applies to every  *)
(* byte array that enters or leaves a JWE.                                 *)
(***************************************************************************)
\* The character of a 6-bit value: A-Z, a-z, 0-9, "-", "_".
base64Char(v) ==
    IF v < 26 THEN 65 + v
    ELSE IF v < 52 THEN 97 + (v - 26)
    ELSE IF v < 62 THEN 48 + (v - 52)
    ELSE IF v = 62 THEN 45 ELSE 95

\* The 6-bit value of a character.
base64Value(c) ==
    IF c \in 65..90 THEN c - 65
    ELSE IF c \in 97..122 THEN c - 97 + 26
    ELSE IF c \in 48..57 THEN c - 48 + 52
    ELSE IF c = 45 THEN 62 ELSE 63

\* base64url.encode: four characters for three bytes, two or three
\* characters for a last group of one or two bytes.
base64url_encode(data) ==
    LET byte(i) == IF i <= Len(data) THEN data[i] ELSE 0
    IN  [k \in 1..((4 * Len(data) + 2) \div 3) |->
            LET g == 3 * ((k - 1) \div 4)
                p == (k - 1) % 4
            IN  base64Char(
                    IF p = 0 THEN byte(g + 1) \div 4
                    ELSE IF p = 1
                    THEN (byte(g + 1) % 4) * 16 + byte(g + 2) \div 16
                    ELSE IF p = 2
                    THEN (byte(g + 2) % 16) * 4 + byte(g + 3) \div 64
                    ELSE byte(g + 3) % 64)]

\* base64url.decode: three bytes for four characters.
base64url_decode(s) ==
    LET value(i) == IF i <= Len(s) THEN base64Value(s[i]) ELSE 0
    IN  [k \in 1..((3 * Len(s)) \div 4) |->
            LET g == 4 * ((k - 1) \div 3)
                q == (k - 1) % 3
            IN  IF q = 0 THEN value(g + 1) * 4 + value(g + 2) \div 16
                ELSE IF q = 1
                THEN (value(g + 2) % 16) * 16 + value(g + 3) \div 4
                ELSE (value(g + 3) % 4) * 64 + value(g + 4)]

(***************************************************************************)
(* The primitives of WebCrypto and jose.  Each is a function on bytes with *)
(* the sizes of the real one and the algebra its callers rely on: X25519   *)
(* clamps its scalar, masks the top bit of its point and commutes; a       *)
(* change of any byte of a key, an iv, a plaintext, a ciphertext or the    *)
(* additional data changes the wrapped key, the ciphertext or the tag.     *)
(***************************************************************************)
\* The scalar X25519 reads from a 32-byte private key (RFC 7748): the three
\* low bits of the first byte are cleared; in the last byte the top bit is
\* cleared and the next one set.
clamp(k) == [k EXCEPT ![1] = k[1] - (k[1] % 8), ![32] = 64 + (k[32] % 64)]

\* The u-coordinate 9.
BasePoint == [i \in 1..32 |-> IF i = 1 THEN 9 ELSE 0]

\* X25519(k, u): the top bit of u is ignored.
X25519(k, u) ==
    LET s == clamp(k)
    IN  [i \in 1..32 |->
            IF i = 32 THEN (s[i] + (u[i] % 128)) % 128
            ELSE (s[i] + u[i]) % 256]

\* The public key of a private key.
publicKeyOf(k) == X25519(k, BasePoint)

\* Concat-KDF with SHA-256 for ECDH-ES+A128KW: 16 bytes from the secret.
concatKdf(z) == [i \in 1..16 |-> (z[i] + 3 * z[i + 16] + 1) % 256]

\* AES Key Wrap (RFC 3394) of a 16-byte key: an 8-byte integrity block and
\* 16 bytes of wrapped key.
aesKeyWrap(kw, key) ==
    [k \in 1..24 |->
        IF k <= 8
        THEN (166 + 2 * kw[k] + 4 * kw[k + 8]
                  + 7 * key[k] + 11 * key[k + 8]) % 256
        ELSE (key[k - 8] + kw[k - 8]) % 256]

\* AES Key Unwrap: fails unless the integrity block checks.
aesKeyUnwrap(kw, wrapped) ==
    IF Len(wrapped) # 24 THEN Throw("decryption operation failed")
    ELSE LET key == [i \in 1..16 |-> (wrapped[i + 8] + 256 - kw[i]) % 256]
         IN  IF aesKeyWrap(kw, key) = wrapped THEN Ok(key)
             ELSE Throw("decryption operation failed")

\* A sum over the bytes at j, j + step, j + 2 step, ... weighted by their
\* places.
RECURSIVE fold(_, _, _)
fold(data, j, step) ==
    IF j > Len(data) THEN 0
    ELSE ((2 * j + 1) * data[j] + fold(data, j + step, step)) % 256

\* The tag of AES-128-GCM over the additional data and the ciphertext.
gcmTag(key, iv, aad, ciphertext) ==
    [j \in 1..16 |->
        (7 * key[j] + 11 * iv[((j - 1) % 12) + 1] + fold(aad, j, 16)
            + 3 * fold(ciphertext, j, 16) + Len(ciphertext)) % 256]

\* AES-128-GCM encryption: a ciphertext as long as the plaintext and a
\* 16-byte tag.
aesGcmEncrypt(key, iv, aad, plaintext) ==
    LET ciphertext ==
            [i \in 1..Len(plaintext) |->
                (plaintext[i] + 3 * key[((i - 1) % 16) + 1]
                    + 5 * iv[((i - 1) % 12) + 1] + i) % 256]
    IN  [ciphertext |-> ciphertext, tag |-> gcmTag(key, iv, aad, ciphertext)]

\* AES-128-GCM decryption: fails unless the tag checks.
aesGcmDecrypt(key, iv, aad, ciphertext, tag) ==
    IF Len(iv) # 12 \/ tag # gcmTag(key, iv, aad, ciphertext)
    THEN Throw("decryption operation failed")
    ELSE Ok([i \in 1..Len(ciphertext) |->
                (ciphertext[i] + 1024 * 256 - 3 * key[((i - 1) % 16) + 1]
                    - 5 * iv[((i - 1) % 12) + 1] - i) % 256])

(***************************************************************************)
(* Encryption and decryption (encryption.ts).  A CryptoKey is the 32 bytes *)
(* of its key; the random generator hands out its values one after the    *)
(* other, so the value a task gets depends on when it draws.               *)
(***************************************************************************)
\* The private key of the key pair with the given number, and its public
\* key, which is what encrypt is given for a recipient.
privateKeyOf(id) == [i \in 1..32 |-> (37 * id + 3 * i + 5) % 256]
recipientKey(id) == publicKeyOf(privateKeyOf(id))

\* The k-th value drawn from the random generator, as a content encryption
\* key (crypto.getRandomValues), as an X25519 private key
\* (crypto.subtle.generateKey) and as an initialization vector (jose).
\* Mutant of randomKey: the key pair generated first is kept and returned
\* again.
randomKey_cached(k) == [i \in 1..32 |-> (101 + 29 * 2 + 5 * i) % 256]

randomCek(k) == [i \in 1..16 |-> (200 + 7 * k + i) % 256]
randomKey(k) == [i \in 1..32 |-> (101 + 29 * k + 5 * i) % 256]
randomIv(k) == [i \in 1..12 |-> (50 + 13 * k + i) % 256]

\* base64url of the JSON text {"enc":"A128GCM"}: "eyJlbmMiOiJBMTI4R0NNIn0".
ProtectedHeader ==
    base64url_encode(<<123, 34, 101, 110, 99, 34, 58, 34, 65, 49, 50, 56, 71,
                       67, 77, 34, 125>>)

\* Mutant of exportPrivateKey: the member x of the JWK, the public key, is
\* decoded.
exportPrivateKey_x(epk) ==
    base64url_decode(base64url_encode(publicKeyOf(epk)))

\* Mutant of exportPublicKey: the bytes are taken for a private key and
\* the public key derived from them is exported.
exportPublicKey_derived(recipient) == publicKeyOf(recipient)

\* exportPrivateKey: the member d of the JWK, decoded; exportPublicKey: the
\* raw key.
exportPrivateKey(epk) == base64url_decode(base64url_encode(epk))
exportPublicKey(recipient) == recipient

\* Mutant of flattenedEncrypt: the content key given is not used, every
\* encryption makes its own.
flattenedEncrypt_ownKey(plaintext, contentKey, epk, recipient, iv) ==
    LET own == [i \in 1..16 |-> (contentKey[i] + iv[1]) % 256]
        kw == concatKdf(X25519(epk, recipient))
        sealed == aesGcmEncrypt(own, iv, ProtectedHeader, plaintext)
    IN  [ciphertext |-> base64url_encode(sealed.ciphertext),
         iv |-> base64url_encode(iv),
         tag |-> base64url_encode(sealed.tag),
         encrypted_key |-> base64url_encode(aesKeyWrap(kw, own)),
         header |-> [alg |-> "ECDH-ES+A128KW",
                     epk |-> [x |-> base64url_encode(publicKeyOf(epk)),
                              crv |-> "X25519", kty |-> "OKP"]],
         protected |-> ProtectedHeader]

\* new FlattenedEncrypt(encoded) ... .encrypt(recipient): the content key
\* is wrapped for the recipient under the given ephemeral key, and the
\* plaintext encrypted under a fresh iv with the protected header as
\* additional data.
flattenedEncrypt(plaintext, contentKey, epk, recipient, iv) ==
    LET kw == concatKdf(X25519(epk, recipient))
        sealed == aesGcmEncrypt(contentKey, iv, ProtectedHeader, plaintext)
    IN  [ciphertext |-> base64url_encode(sealed.ciphertext),
         iv |-> base64url_encode(iv),
         tag |-> base64url_encode(sealed.tag),
         encrypted_key |-> base64url_encode(aesKeyWrap(kw, contentKey)),
         header |-> [alg |-> "ECDH-ES+A128KW",
                     epk |-> [x |-> base64url_encode(publicKeyOf(epk)),
                              crv |-> "X25519", kty |-> "OKP"]],
         protected |-> ProtectedHeader]

\* Mutant of toTXE: the recipients are listed last first.
toTXE_reversed(jwes) ==
    IF jwes = <<>> THEN Throw("at least one JWE required")
    ELSE Ok([ciphertext |-> base64url_decode(jwes[1].ciphertext),
             iv |-> base64url_decode(jwes[1].iv),
             tag |-> base64url_decode(jwes[1].tag),
             recipients |->
                [i \in 1..Len(jwes) |->
                    LET jwe == jwes[Len(jwes) + 1 - i]
                    IN  [encryptedKey |->
                            base64url_decode(jwe.encrypted_key),
                         ephemeralPublicKey |->
                            base64url_decode(jwe.header.epk.x)]]])

\* toTXE: ciphertext, iv and tag of the first JWE, and the encrypted key
\* and ephemeral public key of every JWE in order.
toTXE(jwes) ==
    IF jwes = <<>> THEN Throw("at least one JWE required")
    ELSE Ok([ciphertext |-> base64url_decode(jwes[1].ciphertext),
             iv |-> base64url_decode(jwes[1].iv),
             tag |-> base64url_decode(jwes[1].tag),
             recipients |->
                [i \in 1..Len(jwes) |->
                    [encryptedKey |->
                        base64url_decode(jwes[i].encrypted_key),
                     ephemeralPublicKey |->
                        base64url_decode(jwes[i].header.epk.x)]]])

\* Mutant of fromTXE: every recipient is given the ephemeral public key of
\* the first one.
fromTXE_sharedEpk(envelope) ==
    [ciphertext |-> base64url_encode(envelope.ciphertext),
     iv |-> base64url_encode(envelope.iv),
     tag |-> base64url_encode(envelope.tag),
     recipients |->
        [i \in 1..Len(envelope.recipients) |->
            [encrypted_key |->
                base64url_encode(envelope.recipients[i].encryptedKey),
             header |->
                [alg |-> "ECDH-ES+A128KW",
                 epk |-> [x |-> base64url_encode(
                                  envelope.recipients[1].ephemeralPublicKey),
                          crv |-> "X25519", kty |-> "OKP"]]]],
     protected |-> ProtectedHeader]

\* fromTXE: the general JWE of an envelope.
fromTXE(envelope) ==
    [ciphertext |-> base64url_encode(envelope.ciphertext),
     iv |-> base64url_encode(envelope.iv),
     tag |-> base64url_encode(envelope.tag),
     recipients |->
        [i \in 1..Len(envelope.recipients) |->
            [encrypted_key |->
                base64url_encode(envelope.recipients[i].encryptedKey),
             header |->
                [alg |-> "ECDH-ES+A128KW",
                 epk |-> [x |-> base64url_encode(
                                  envelope.recipients[i].ephemeralPublicKey),
                          crv |-> "X25519", kty |-> "OKP"]]]],
     protected |-> ProtectedHeader]

\* flattenedDecrypt (jose) for the recipient at position i: a key that does
\* not unwrap is replaced by a random one, with which the content does not
\* authenticate; every failure is the same JWEDecryptionFailed.
flattenedDecrypt(jwe, i, privateKey) ==
    LET recipient == jwe.recipients[i]
        x == base64url_decode(recipient.header.epk.x)
    IN  IF Len(x) # 32 THEN Throw("decryption operation failed")
        ELSE
        LET kw == concatKdf(X25519(privateKey, x))
            key == aesKeyUnwrap(kw, base64url_decode(recipient.encrypted_key))
        IN  IF key.kind # "ok" THEN Throw("decryption operation failed")
            ELSE aesGcmDecrypt(key.value, base64url_decode(jwe.iv),
                               jwe.protected,
                               base64url_decode(jwe.ciphertext),
                               base64url_decode(jwe.tag))

\* generalDecrypt (jose): the recipients are tried in order, failures are
\* swallowed, and when none succeeds JWEDecryptionFailed is thrown.
generalDecrypt(jwe, privateKey) ==
    LET successes ==
            {i \in 1..Len(jwe.recipients) :
                flattenedDecrypt(jwe, i, privateKey).kind = "ok"}
    IN  IF successes = {} THEN Throw("decryption operation failed")
        ELSE flattenedDecrypt(
                jwe, CHOOSE i \in successes : \A j \in successes : i <= j,
                privateKey)

\* decrypt: decode the blob, decrypt its JWE, decode the plaintext.
decrypt(blob, privateKey) ==
    LET envelope == txe_decode(blob)
    IN  IF envelope.kind # "ok" THEN envelope
        ELSE LET opened == generalDecrypt(fromTXE(envelope.value), privateKey)
             IN  IF opened.kind # "ok" THEN opened
                 ELSE safe_decode(opened.value)

(***************************************************************************)
(* The JWE of an envelope (txe.ts).  The argument of toJWE is an envelope  *)
(* or a blob; the model tags it with the type instanceof tests.            *)
(***************************************************************************)
\* The character btoa writes for a 6-bit value: A-Z, a-z, 0-9, "+", "/".
btoaChar(v) ==
    IF v < 26 THEN 65 + v
    ELSE IF v < 52 THEN 97 + (v - 26)
    ELSE IF v < 62 THEN 48 + (v - 52)
    ELSE IF v = 62 THEN 43 ELSE 47

\* btoa: four characters for every group of three bytes, a last group of
\* one or two bytes filled up with "=".
btoa(data) ==
    LET byte(i) == IF i <= Len(data) THEN data[i] ELSE 0
    IN  [k \in 1..(4 * ((Len(data) + 2) \div 3)) |->
            LET g == 3 * ((k - 1) \div 4)
                p == (k - 1) % 4
            IN  IF p = 0 THEN btoaChar(byte(g + 1) \div 4)
                ELSE IF p = 1
                THEN btoaChar((byte(g + 1) % 4) * 16 + byte(g + 2) \div 16)
                ELSE IF p = 2
                THEN IF g + 2 > Len(data) THEN 61
                     ELSE btoaChar((byte(g + 2) % 16) * 4
                                       + byte(g + 3) \div 64)
                ELSE IF g + 3 > Len(data) THEN 61
                     ELSE btoaChar(byte(g + 3) % 64)]

\* replace(/\+/g, "-") and replace(/\//g, "_").
replaceAll(s, from, to) == [i \in 1..Len(s) |-> IF s[i] = from THEN to ELSE s[i]]

\* replace(/=+$/, ""): the "=" at the end are dropped.
RECURSIVE stripPadding(_)
stripPadding(s) ==
    IF s # <<>> /\ s[Len(s)] = 61
    THEN stripPadding(SubSeq(s, 1, Len(s) - 1))
    ELSE s

\* base64Encode on a platform without Uint8Array.prototype.toBase64; with
\* it, the platform writes the base64url alphabet without padding itself.
base64Encode(data) ==
    stripPadding(replaceAll(replaceAll(btoa(data), 43, 45), 47, 95))

\* The string "eyJlbmMiOiJBMTI4R0NNIn0" that toJWE writes as the protected
\* header, as character codes.
ProtectedConstant ==
    <<101, 121, 74, 108, 98, 109, 77, 105, 79, 105, 74, 66,
      77, 84, 73, 52, 82, 48, 78, 78, 73, 110, 48>>

\* An argument of toJWE.
Uint8Array(blob) == [t |-> "Uint8Array", v |-> blob]
TXE(envelope) == [t |-> "TXE", v |-> envelope]

\* toJWE: a blob is decoded first; the general JWE has the recipients of
\* the envelope in their order and the constant protected header.
toJWE(input) ==
    LET envelope == IF input.t = "Uint8Array" THEN txe_decode(input.v)
                    ELSE Ok(input.v)
    IN  IF envelope.kind # "ok" THEN envelope
        ELSE Ok([ciphertext |-> base64Encode(envelope.value.ciphertext),
                 iv |-> base64Encode(envelope.value.iv),
                 tag |-> base64Encode(envelope.value.tag),
                 recipients |->
                    [i \in 1..Len(envelope.value.recipients) |->
                        [encrypted_key |->
                            base64Encode(envelope.value.recipients[i]
                                             .encryptedKey),
                         header |->
                            [alg |-> "ECDH-ES+A128KW",
                             epk |->
                                [x |-> base64Encode(
                                         envelope.value.recipients[i]
                                             .ephemeralPublicKey),
                                 crv |-> "X25519", kty |-> "OKP"]]]],
                 protected |-> ProtectedConstant])

(***************************************************************************)
(* One call of encrypt, task by task, then the blob on its way to decrypt. *)
(***************************************************************************)
\* The transaction of the tests, and one with zero and empty fields.
EncTransactions ==
    {[to |-> Address(97, 49), value |-> 2,
      data |-> toBytes(<<3, 4, 5, 6>>), operation |-> DELEGATECALL,
      safeTxGas |-> 7, baseGas |-> 8, gasPrice |-> 9,
      gasToken |-> Address(97, 50), refundReceiver |-> Address(97, 51),
      nonce |-> 1337],
     [to |-> Address(48, 48), value |-> 0,
      data |-> Prefix0x, operation |-> CALL,
      safeTxGas |-> 0, baseGas |-> 0, gasPrice |-> 0,
      gasToken |-> Address(48, 48), refundReceiver |-> Address(48, 48),
      nonce |-> 0]}

\* Key pairs 1, 2 and 3 are recipients; key pair 4 never is.
RecipientLists ==
    {<<>>, <<1>>, <<2, 1>>, <<1, 1>>, <<1, 2, 3>>}
KeyPairs == {1, 2, 3, 4}

InitEnc ==
    /\ pc = "start"
    /\ TxeIdle
    /\ RlpIdle
    /\ safeTx \in EncTransactions
    /\ encRecipients \in RecipientLists
    /\ rng = 0
    /\ encCek = <<>>
    /\ encEpks = <<>>
    /\ encJwes = <<>>
    /\ encPrivs = <<>>
    /\ encOut = None
    /\ stored = <<>>
    /\ decKey = 0
    /\ decOut = None
    /\ CircuitIdle
    /\ CallerIdle

\* Every slot of the sequence but slot i is filled.
OthersDone(slots, i, pending) ==
    \A j \in 1..Len(slots) : j # i => slots[j] # pending

\* Mutant of EncryptCall: the recipients are not checked.
EncryptCall_unchecked ==
    /\ pc = "start"
    /\ encCek' = randomCek(rng + 1)
    /\ rng' = rng + 1
    /\ encEpks' = [i \in 1..Len(encRecipients) |-> <<>>]
    /\ encJwes' = [i \in 1..Len(encRecipients) |-> None]
    /\ encPrivs' = [i \in 1..Len(encRecipients) |-> None]
    /\ pc' = IF Len(encRecipients) = 0 THEN "assemble" ELSE "keys"
    /\ UNCHANGED <<txeVars, callerVars, rlpVars, encRecipients, encOut, stored,
                   decKey, decOut, circuitVars>>

\* encrypt up to its first await of Promise.all: the check of the
\* recipients, the content encryption key, and one key generation started
\* per recipient.
EncryptCall ==
    /\ pc = "start"
    /\ IF Len(encRecipients) = 0
       THEN /\ encOut' = Throw("must encrypt to at least one recipient")
            /\ pc' = "failed"
            /\ UNCHANGED <<rng, encCek, encEpks, encJwes, encPrivs>>
       ELSE /\ encCek' = randomCek(rng + 1)
            /\ rng' = rng + 1
            /\ encEpks' = [i \in 1..Len(encRecipients) |-> <<>>]
            /\ encJwes' = [i \in 1..Len(encRecipients) |-> None]
            /\ encPrivs' = [i \in 1..Len(encRecipients) |-> None]
            /\ pc' = "keys"
            /\ UNCHANGED encOut
    /\ UNCHANGED <<txeVars, callerVars, rlpVars, encRecipients, stored, decKey,
                   decOut, circuitVars>>

\* The key generation of one position completes; after the last one the
\* encryptions are started.
GenerateKey ==
    /\ pc = "keys"
    /\ \E i \in 1..Len(encEpks) :
          /\ encEpks[i] = <<>>
          /\ encEpks' = [encEpks EXCEPT ![i] = randomKey(rng + 1)]
          /\ pc' = IF OthersDone(encEpks, i, <<>>) THEN "jwes" ELSE "keys"
    /\ rng' = rng + 1
    /\ UNCHANGED <<txeVars, callerVars, rlpVars, encRecipients, encCek,
                   encJwes, encPrivs, encOut, stored, decKey, decOut,
                   circuitVars>>

\* The encryption for one position completes.
EncryptFor ==
    /\ pc = "jwes"
    /\ \E i \in 1..Len(encJwes) :
          /\ encJwes[i] = None
          /\ encJwes' =
                [encJwes EXCEPT ![i] =
                    flattenedEncrypt(safe_encode(safeTx), encCek, encEpks[i],
                                     recipientKey(encRecipients[i]),
                                     randomIv(rng + 1))]
          /\ pc' = IF OthersDone(encJwes, i, None) THEN "assemble" ELSE "jwes"
    /\ rng' = rng + 1
    /\ UNCHANGED <<txeVars, callerVars, rlpVars, encRecipients, encCek,
                   encEpks, encPrivs, encOut, stored, decKey, decOut,
                   circuitVars>>

\* The envelope that encrypt assembles and its blob.
Assembled == toTXE(encJwes)
AssembledBlob ==
    IF Assembled.kind = "ok" THEN txe_encode(Assembled.value) ELSE Assembled

\* All encryptions are done: the envelope is assembled and encoded, and one
\* export of keys is started per recipient.
Assemble ==
    /\ pc = "assemble"
    /\ IF AssembledBlob.kind = "ok"
       THEN pc' = "exports" /\ UNCHANGED encOut
       ELSE pc' = "failed" /\ encOut' = AssembledBlob
    /\ UNCHANGED <<txeVars, callerVars, rlpVars, encRecipients, rng, encCek,
                   encEpks, encJwes, encPrivs, stored, decKey, decOut,
                   circuitVars>>

\* The export of the keys of one position completes; after the last one
\* encrypt returns the blob and the private input.
ExportKeys ==
    /\ pc = "exports"
    /\ \E i \in 1..Len(encPrivs) :
          /\ encPrivs[i] = None
          /\ encPrivs' =
                [encPrivs EXCEPT ![i] =
                    [publicKey |->
                        exportPublicKey(recipientKey(encRecipients[i])),
                     ephemeralPrivateKey |-> exportPrivateKey(encEpks[i])]]
          /\ IF OthersDone(encPrivs, i, None)
             THEN /\ pc' = "returned"
                  /\ encOut' =
                        Ok([blob |-> AssembledBlob.value,
                            private |->
                               [transaction |-> safe_encode(safeTx),
                                contentEncryptionKey |-> encCek,
                                recipients |-> encPrivs']])
             ELSE UNCHANGED <<pc, encOut>>
    /\ UNCHANGED <<txeVars, callerVars, rlpVars, encRecipients, rng, encCek,
                   encEpks, encJwes, stored, decKey, decOut, circuitVars>>

\* The byte at offset (from 0) of the data, with all its bits flipped.
flipByte(data, offset) ==
    [data EXCEPT ![offset + 1] = 255 - data[offset + 1]]

\* Offsets of the first bytes of the ciphertext, the iv, the tag, the first
\* encrypted key and the first ephemeral public key in a blob.
FieldOffsets(data) ==
    LET L == 256 * data[1] + data[2]
    IN  {2, 2 + L, 2 + L + IV_LEN, 3 + L + IV_LEN + TAG_LEN,
         3 + L + IV_LEN + TAG_LEN + ENCRYPTED_KEY_LEN}

\* The blob reaches its reader as it is, or with one byte changed on the
\* way.
Deliver ==
    /\ pc = "returned"
    /\ \/ stored' = encOut.value.blob
       \/ \E offset \in FieldOffsets(encOut.value.blob) :
             stored' = flipByte(encOut.value.blob, offset)
    /\ pc' = "stored"
    /\ UNCHANGED <<txeVars, callerVars, rlpVars, encRecipients, rng, encCek,
                   encEpks, encJwes, encPrivs, encOut, decKey, decOut,
                   circuitVars>>

\* decrypt is called with the private key of a key pair.
Decrypt ==
    /\ pc = "stored"
    /\ \E id \in KeyPairs :
          /\ decKey' = id
          /\ decOut' = decrypt(stored, privateKeyOf(id))
    /\ pc' = "decrypted"
    /\ UNCHANGED <<txeVars, callerVars, rlpVars, encRecipients, rng, encCek,
                   encEpks, encJwes, encPrivs, encOut, stored, circuitVars>>

NextEnc ==
    \/ EncryptCall
    \/ GenerateKey
    \/ EncryptFor
    \/ Assemble
    \/ ExportKeys
    \/ Deliver
    \/ Decrypt

SpecEnc == InitEnc /\ [][NextEnc]_vars

(***************************************************************************)
(* Circuit input (circuit.ts).  An Input is a record of its public and its *)
(* private half; the nonce is a bigint.                                    *)
(***************************************************************************)
\* byteLength: (b.length - 2) / 2, which is not whole for a string of odd
\* length; the model keeps the numerator, the number of digits.
byteLength(b) == Len(b) - 2

\* (1n << 256n) - 1n.
MAX_UINT == bigint(FALSE, [i \in 1..32 |-> 255])

\* a < 0n.
isNegative(a) == a.neg /\ a.mag # <<>>

\* a > b on bigints that are not negative.
RECURSIVE greaterBytes(_, _)
greaterBytes(a, b) ==
    IF a = <<>> THEN FALSE
    ELSE IF Head(a) # Head(b) THEN Head(a) > Head(b)
    ELSE greaterBytes(Tail(a), Tail(b))
isGreater(a, b) ==
    \/ Len(a.mag) > Len(b.mag)
    \/ Len(a.mag) = Len(b.mag) /\ greaterBytes(a.mag, b.mag)

\* Mutant of conceal: the placeholder of the transaction has the size of
\* the blob's fixed part, not of the ciphertext.
conceal_fixedSize(public) ==
    [public |-> public,
     private |->
        [transaction |-> newUint8Array(Len(public.iv) + Len(public.tag)),
         contentEncryptionKey |-> newUint8Array(16),
         recipients |->
            [i \in 1..Len(public.recipients) |->
                [publicKey |-> newUint8Array(32),
                 ephemeralPrivateKey |-> newUint8Array(32)]]]]

\* Mutant of conceal: the placeholder of the content encryption key is
\* filled from the tag.
conceal_fromTag(public) ==
    [public |-> public,
     private |->
        [transaction |-> newUint8Array(Len(public.ciphertext)),
         contentEncryptionKey |-> [i \in 1..16 |-> public.tag[i]],
         recipients |->
            [i \in 1..Len(public.recipients) |->
                [publicKey |-> newUint8Array(32),
                 ephemeralPrivateKey |-> newUint8Array(32)]]]]

\* conceal: the public half as it is and a private half of zero bytes with
\* the sizes of the real one.
conceal(public) ==
    [public |-> public,
     private |->
        [transaction |-> newUint8Array(Len(public.ciphertext)),
         contentEncryptionKey |-> newUint8Array(16),
         recipients |->
            [i \in 1..Len(public.recipients) |->
                [publicKey |-> newUint8Array(32),
                 ephemeralPrivateKey |-> newUint8Array(32)]]]]

\* Mutant of extract: the nonce is checked against MAX_UINT with >=.
extract_strict(nonce, structHash, blob) ==
    IF byteLength(structHash) # 2 * 32 THEN Throw("invalid struct hash")
    ELSE IF isNegative(nonce) \/ ~isGreater(MAX_UINT, nonce)
    THEN Throw("invalid nonce")
    ELSE LET envelope == txe_decode(blob)
         IN  IF envelope.kind # "ok" THEN envelope
             ELSE Ok(conceal([structHash |-> structHash,
                              nonce |-> nonce,
                              ciphertext |-> envelope.value.ciphertext,
                              iv |-> envelope.value.iv,
                              tag |-> envelope.value.tag,
                              recipients |-> envelope.value.recipients]))

\* extract: the struct hash is checked, then the nonce, then the blob is
\* decoded.
extract(nonce, structHash, blob) ==
    IF byteLength(structHash) # 2 * 32 THEN Throw("invalid struct hash")
    ELSE IF isNegative(nonce) \/ isGreater(nonce, MAX_UINT)
    THEN Throw("invalid nonce")
    ELSE LET envelope == txe_decode(blob)
         IN  IF envelope.kind # "ok" THEN envelope
             ELSE Ok(conceal([structHash |-> structHash,
                              nonce |-> nonce,
                              ciphertext |-> envelope.value.ciphertext,
                              iv |-> envelope.value.iv,
                              tag |-> envelope.value.tag,
                              recipients |-> envelope.value.recipients]))

\* Mutant of argify: the pair of a recipient starts with its ephemeral key.
argify_swapped(input) ==
    [public |->
        toBytes(rlp_encode(List(<<
            Str(input.public.structHash),
            Big(input.public.nonce),
            Bin(input.public.ciphertext),
            Bin(input.public.iv),
            Bin(input.public.tag),
            List([i \in 1..Len(input.public.recipients) |->
                    List(<<Bin(input.public.recipients[i].ephemeralPublicKey),
                           Bin(input.public.recipients[i].encryptedKey)>>)])
        >>))),
     private |->
        toBytes(rlp_encode(List(<<
            Bin(input.private.transaction),
            Bin(input.private.contentEncryptionKey),
            List([i \in 1..Len(input.private.recipients) |->
                    List(<<Bin(input.private.recipients[i].publicKey),
                           Bin(input.private.recipients[i]
                                    .ephemeralPrivateKey)>>)])
        >>)))]

\* argify: each half as the hexadecimal string of one RLP list.
argify(input) ==
    [public |->
        toBytes(rlp_encode(List(<<
            Str(input.public.structHash),
            Big(input.public.nonce),
            Bin(input.public.ciphertext),
            Bin(input.public.iv),
            Bin(input.public.tag),
            List([i \in 1..Len(input.public.recipients) |->
                    List(<<Bin(input.public.recipients[i].encryptedKey),
                           Bin(input.public.recipients[i].ephemeralPublicKey)>>)])
        >>))),
     private |->
        toBytes(rlp_encode(List(<<
            Bin(input.private.transaction),
            Bin(input.private.contentEncryptionKey),
            List([i \in 1..Len(input.private.recipients) |->
                    List(<<Bin(input.private.recipients[i].publicKey),
                           Bin(input.private.recipients[i]
                                    .ephemeralPrivateKey)>>)])
        >>)))]

(***************************************************************************)
(* The struct hash of the callers (ethers in the tests) and the relation   *)
(* the circuit enforces.                                                   *)
(***************************************************************************)
\* Keccak-256: 32 bytes that change with any byte of the data and with its
\* length.
keccak256(data) ==
    [j \in 1..32 |-> (fold(data, j, 32) + 13 * Len(data) + 99) % 256]

\* The 32-byte word of a value of at most 32 bytes.
pad32(b) ==
    [i \in 1..32 |-> IF i <= 32 - Len(b) THEN 0 ELSE b[i - (32 - Len(b))]]

\* "SafeTx".
SafeTxType == <<83, 97, 102, 101, 84, 120>>

\* Mutant of hashStruct: the nonce is left out of the hash.
hashStruct_noNonce(transaction, nonce) ==
    toBytes(keccak256(concat(<<
        keccak256(SafeTxType),
        pad32(toByteArray_string(transaction.to)),
        pad32(toByteArray_number(transaction.value)),
        keccak256(toByteArray_string(transaction.data)),
        pad32(toByteArray_number(transaction.operation)),
        pad32(toByteArray_number(transaction.safeTxGas)),
        pad32(toByteArray_number(transaction.baseGas)),
        pad32(toByteArray_number(transaction.gasPrice)),
        pad32(toByteArray_string(transaction.gasToken)),
        pad32(toByteArray_string(transaction.refundReceiver))>>)))

\* hashStruct of EIP-712 for the type SafeTx: the hash of the type hash and
\* one word for each of the nine fields and the nonce.
hashStruct(transaction, nonce) ==
    toBytes(keccak256(concat(<<
        keccak256(SafeTxType),
        pad32(toByteArray_string(transaction.to)),
        pad32(toByteArray_number(transaction.value)),
        keccak256(toByteArray_string(transaction.data)),
        pad32(toByteArray_number(transaction.operation)),
        pad32(toByteArray_number(transaction.safeTxGas)),
        pad32(toByteArray_number(transaction.baseGas)),
        pad32(toByteArray_number(transaction.gasPrice)),
        pad32(toByteArray_string(transaction.gasToken)),
        pad32(toByteArray_string(transaction.refundReceiver)),
        pad32(nonce.mag)>>)))

\* The lengths of the fields of an Input and the counts of its recipients.
shape(input) ==
    /\ isBytes(input.public.structHash)
    /\ byteLength(input.public.structHash) = 2 * 32
    /\ ~isNegative(input.public.nonce)
    /\ ~isGreater(input.public.nonce, MAX_UINT)
    /\ Len(input.public.iv) = IV_LEN
    /\ Len(input.public.tag) = TAG_LEN
    /\ Len(input.private.transaction) = Len(input.public.ciphertext)
    /\ Len(input.private.contentEncryptionKey) = 16
    /\ Len(input.public.recipients) >= 1
    /\ Len(input.private.recipients) = Len(input.public.recipients)
    /\ \A i \in 1..Len(input.public.recipients) :
          /\ Len(input.public.recipients[i].encryptedKey) = ENCRYPTED_KEY_LEN
          /\ Len(input.public.recipients[i].ephemeralPublicKey)
                = EPHEMERAL_PUBLIC_KEY_LEN
          /\ Len(input.private.recipients[i].publicKey) = 32
          /\ Len(input.private.recipients[i].ephemeralPrivateKey) = 32

\* Payload commitment: the struct hash of the decoded transaction and the
\* public nonce is the public struct hash.
payloadCommitment(input) ==
    LET fields == safe_decode(input.private.transaction)
    IN  /\ fields.kind = "ok"
        /\ toByteArray_string(hashStruct(fields.value, input.public.nonce))
              = toByteArray_string(input.public.structHash)

\* AEAD consistency: encrypting the transaction under the content
\* encryption key and the iv gives the public ciphertext and tag.  The JWE
\* has no additional data of its own, so what AES-GCM authenticates besides
\* the ciphertext is the protected header of the JWE.
aeadConsistency(input) ==
    aesGcmEncrypt(input.private.contentEncryptionKey, input.public.iv,
                  ProtectedHeader, input.private.transaction)
        = [ciphertext |-> input.public.ciphertext, tag |-> input.public.tag]

\* Key-wrap consistency of one recipient.
keyWrapConsistency(input, i) ==
    LET esk == input.private.recipients[i].ephemeralPrivateKey
        z == X25519(esk, input.private.recipients[i].publicKey)
    IN  /\ publicKeyOf(esk) = input.public.recipients[i].ephemeralPublicKey
        /\ aesKeyWrap(concatKdf(z), input.private.contentEncryptionKey)
              = input.public.recipients[i].encryptedKey

\* The relation: shape, payload commitment, AEAD consistency and the
\* key-wrap consistency of every recipient.
relation(input) ==
    /\ shape(input)
    /\ payloadCommitment(input)
    /\ aeadConsistency(input)
    /\ \A i \in 1..Len(input.public.recipients) : keyWrapConsistency(input, i)

(***************************************************************************)
(* One call of encrypt as a whole, then extract, argify and the circuit on *)
(* the input the caller composes, as it is or with one field changed.      *)
(***************************************************************************)
\* BigInt of a number that is not negative.
BigInt(n) == bigint(FALSE, toByteArray_number(n))

\* The bitwise exclusive or of two bytes.
xor(a, b) ==
    LET bit(k) == (((a \div (2 ^ k)) + (b \div (2 ^ k))) % 2) * (2 ^ k)
    IN  bit(0) + bit(1) + bit(2) + bit(3) + bit(4) + bit(5) + bit(6) + bit(7)

\* data[offset] ^= mask.
xorAt(data, offset, mask) ==
    [data EXCEPT ![offset + 1] = xor(data[offset + 1], mask)]

\* The big-endian bytes of the number after the one given.
RECURSIVE incrementBytes(_)
incrementBytes(b) ==
    IF b = <<>> THEN <<1>>
    ELSE IF b[Len(b)] < 255 THEN [b EXCEPT ![Len(b)] = b[Len(b)] + 1]
    ELSE Append(incrementBytes(SubSeq(b, 1, Len(b) - 1)), 0)

\* nonce++ and (BigInt(structHash) + 1n).toString(16).padStart(64, "0").
incrementNonce(nonce) == bigint(FALSE, incrementBytes(nonce.mag))
incrementHash(structHash) ==
    LET sum == incrementBytes(toByteArray_string(structHash))
    IN  toBytes(IF Len(sum) > 32 THEN sum ELSE SubSeq(sum, Len(sum) - 31, Len(sum)))

\* The masks and the offsets of the changes to a field of bytes: all bits,
\* the lowest and the highest bit, of the first and of the last byte.
Masks == {255, 1, 128}
Offsets(data) == {0, Len(data) - 1}
Changed(data) ==
    {xorAt(data, offset, mask) : offset \in Offsets(data), mask \in Masks}

\* The inputs that differ from the given one in exactly one field.
Tampered(input) ==
    LET pub == input.public
        prv == input.private
        withPublic(f, v) == [input EXCEPT !.public[f] = v]
        withPrivate(f, v) == [input EXCEPT !.private[f] = v]
    IN  {withPublic("structHash", incrementHash(pub.structHash)),
         withPublic("nonce", incrementNonce(pub.nonce))}
        \cup {[input EXCEPT !.public.ciphertext = v] :
                 v \in Changed(pub.ciphertext)}
        \cup {[input EXCEPT !.public.iv = v] : v \in Changed(pub.iv)}
        \cup {[input EXCEPT !.public.tag = v] : v \in Changed(pub.tag)}
        \cup {[input EXCEPT !.private.transaction = v] :
                 v \in Changed(prv.transaction)}
        \cup {[input EXCEPT !.private.contentEncryptionKey = v] :
                 v \in Changed(prv.contentEncryptionKey)}
        \cup UNION {
               {[input EXCEPT !.public.recipients[i].encryptedKey = v] :
                   v \in Changed(pub.recipients[i].encryptedKey)}
               \cup
               {[input EXCEPT !.public.recipients[i].ephemeralPublicKey = v] :
                   v \in Changed(pub.recipients[i].ephemeralPublicKey)}
               \cup
               {[input EXCEPT !.private.recipients[i].publicKey = v] :
                   v \in Changed(prv.recipients[i].publicKey)}
               \cup
               {[input EXCEPT !.private.recipients[i].ephemeralPrivateKey = v] :
                   v \in Changed(prv.recipients[i].ephemeralPrivateKey)}
               : i \in 1..Len(pub.recipients)}

\* The struct hashes a caller passes: the one of the transaction, the one
\* after it, and strings of 31 and 33 bytes, of 63 digits and of none.
StructHashes(transaction) ==
    LET hash == hashStruct(transaction, BigInt(transaction.nonce))
    IN  {hash, incrementHash(hash), SubSeq(hash, 1, 64), hash \o <<48, 48>>,
         SubSeq(hash, 1, 65), Prefix0x}

\* The nonces a caller passes: the one of the transaction, -1, 0,
\* 2^256 - 1 and 2^256.
Nonces(transaction) ==
    {BigInt(transaction.nonce), bigint(TRUE, <<1>>), bigint(FALSE, <<>>),
     MAX_UINT, bigint(FALSE, <<1>> \o [i \in 1..32 |-> 0])}

\* The blobs a caller passes: the one encrypt returned, its first byte
\* alone, and all but its last byte.
Blobs(blob) == {blob, SubSeq(blob, 1, 1), SubSeq(blob, 1, Len(blob) - 1)}

\* encrypt from its call to its return, the tasks of every Promise.all
\* completing in the order of their positions.
Encrypt ==
    /\ pc = "start"
    /\ IF Len(encRecipients) = 0
       THEN /\ encOut' = Throw("must encrypt to at least one recipient")
            /\ pc' = "failed"
            /\ UNCHANGED <<rng, encCek, encEpks, encJwes, encPrivs>>
       ELSE LET n == Len(encRecipients)
            IN  /\ encCek' = randomCek(rng + 1)
                /\ encEpks' = [i \in 1..n |-> randomKey(rng + 1 + i)]
                /\ encJwes' =
                      [i \in 1..n |->
                          flattenedEncrypt(safe_encode(safeTx), encCek',
                                           encEpks'[i],
                                           recipientKey(encRecipients[i]),
                                           randomIv(rng + 1 + n + i))]
                /\ encPrivs' =
                      [i \in 1..n |->
                          [publicKey |->
                              exportPublicKey(recipientKey(encRecipients[i])),
                           ephemeralPrivateKey |->
                              exportPrivateKey(encEpks'[i])]]
                /\ rng' = rng + 1 + 2 * n
                /\ LET envelope == toTXE(encJwes')
                       blob == IF envelope.kind = "ok"
                               THEN txe_encode(envelope.value) ELSE envelope
                   IN  IF blob.kind = "ok"
                       THEN /\ pc' = "returned"
                            /\ encOut' =
                                  Ok([blob |-> blob.value,
                                      private |->
                                         [transaction |-> safe_encode(safeTx),
                                          contentEncryptionKey |-> encCek',
                                          recipients |-> encPrivs']])
                       ELSE /\ pc' = "failed"
                            /\ encOut' = blob
    /\ UNCHANGED <<txeVars, callerVars, rlpVars, encRecipients, stored, decKey,
                   decOut, circuitVars>>

\* extract is called with a struct hash, a nonce and a blob.
Extract ==
    /\ pc = "returned"
    /\ \E structHash \in StructHashes(safeTx), nonce \in Nonces(safeTx),
          blob \in Blobs(encOut.value.blob) :
          /\ extractArgs' = [structHash |-> structHash, nonce |-> nonce,
                             blob |-> blob]
          /\ extracted' = extract(nonce, structHash, blob)
    /\ pc' = "extracted"
    /\ UNCHANGED <<txeVars, callerVars, rlpVars, encVars, circuitInput, argv,
                   verdict>>

\* The caller keeps what extract returned, or replaces its private half by
\* the private input encrypt returned.
Compose ==
    /\ pc = "extracted"
    /\ extracted.kind = "ok"
    /\ \/ circuitInput' = extracted.value
       \/ circuitInput' = [public |-> extracted.value.public,
                           private |-> encOut.value.private]
    /\ pc' = "composed"
    /\ UNCHANGED <<txeVars, callerVars, rlpVars, encVars, extractArgs,
                   extracted, argv, verdict>>

\* The input made of the public half extract returns for the struct hash
\* and the nonce of the transaction and of the private input of encrypt.
Legitimate ==
    LET out == extract(BigInt(safeTx.nonce),
                       hashStruct(safeTx, BigInt(safeTx.nonce)),
                       encOut.value.blob)
    IN  [public |-> out.value.public, private |-> encOut.value.private]

\* One field of a legitimate input is changed.
Tamper ==
    /\ pc = "composed"
    /\ circuitInput = Legitimate
    /\ circuitInput' \in Tampered(circuitInput)
    /\ pc' = "tampered"
    /\ UNCHANGED <<txeVars, callerVars, rlpVars, encVars, extractArgs,
                   extracted, argv, verdict>>

\* argify is called with the input.
Argify ==
    /\ pc = "composed"
    /\ argv' = argify(circuitInput)
    /\ pc' = "argified"
    /\ UNCHANGED <<txeVars, callerVars, rlpVars, encVars, extractArgs,
                   extracted, circuitInput, verdict>>

\* The circuit is run on the input.
Verify ==
    /\ pc \in {"composed", "tampered"}
    /\ verdict' = IF relation(circuitInput) THEN "true" ELSE "false"
    /\ pc' = "verified"
    /\ UNCHANGED <<txeVars, callerVars, rlpVars, encVars, extractArgs,
                   extracted, circuitInput, argv>>

NextCircuit ==
    \/ Encrypt
    \/ Extract
    \/ Compose
    \/ Tamper
    \/ Argify
    \/ Verify

SpecCircuit == InitEnc /\ [][NextCircuit]_vars

(***************************************************************************)
(* encrypt called again and again by one process.  The random generator is *)
(* the platform's: it goes on from where the call before left it.          *)
(***************************************************************************)
\* The caller keeps what encrypt returned or threw and calls it again, with
\* any transaction and any recipients, the same ones included.
Again ==
    /\ pc \in {"returned", "failed"}
    /\ Len(history) + 1 < MaxCalls
    /\ history' = Append(history, encOut)
    /\ safeTx' \in EncTransactions
    /\ encRecipients' \in RecipientLists
    /\ encCek' = <<>>
    /\ encEpks' = <<>>
    /\ encJwes' = <<>>
    /\ encPrivs' = <<>>
    /\ encOut' = None
    /\ pc' = "start"
    /\ UNCHANGED <<txeVars, source, tree, wire, rlpOut, safeOut, rng, stored,
                   decKey, decOut, circuitVars, mem>>

NextCalls == Encrypt \/ Again

SpecCalls == InitEnc /\ [][NextCalls]_vars

(***************************************************************************)
(* extract called for the blobs of two encrypt calls.                      *)
(***************************************************************************)
\* The caller keeps the arguments and the result of an accepted call of
\* extract, and encrypts again, with any transaction and any recipients.
Keep ==
    /\ pc = "extracted"
    /\ extracted.kind = "ok"
    /\ history = <<>>
    /\ history' = <<[args |-> extractArgs, out |-> extracted]>>
    /\ safeTx' \in EncTransactions
    /\ encRecipients' \in RecipientLists
    /\ encCek' = <<>>
    /\ encEpks' = <<>>
    /\ encJwes' = <<>>
    /\ encPrivs' = <<>>
    /\ encOut' = None
    /\ extractArgs' = None
    /\ extracted' = None
    /\ pc' = "start"
    /\ UNCHANGED <<txeVars, source, tree, wire, rlpOut, safeOut, rng, stored,
                   decKey, decOut, circuitInput, argv, verdict, mem>>

NextExtracts == Encrypt \/ Extract \/ Keep

SpecExtracts == InitEnc /\ [][NextExtracts]_vars

(***************************************************************************)
(* Claims about the TXE codec, checked under SpecTXE.                      *)
(***************************************************************************)
\* An envelope of the data model: the lengths isTXE checks, a ciphertext
\* shorter than 2^16 bytes and at most 256 recipients.
ValidEnvelope(e) ==
    /\ Len(e.iv) = 12
    /\ Len(e.tag) = 16
    /\ Len(e.ciphertext) < 65536
    /\ Len(e.recipients) \in 1..256
    /\ \A i \in 1..Len(e.recipients) :
          /\ Len(e.recipients[i].encryptedKey) = 24
          /\ Len(e.recipients[i].ephemeralPublicKey) = 32

Untouched == keep = -1 /\ extra = <<>>

\* C1: for every envelope of the data model, decoding the bytes encode
\* returned gives back the envelope field by field, recipients in order.
C1_TxeRoundTrip ==
    LET in == Input
        out == Decoded
    IN  (pc = "decoded" /\ Untouched /\ ValidEnvelope(in)) =>
            /\ decoded = "ok"
            /\ out.kind = "ok"
            /\ out.value.ciphertext = in.ciphertext
            /\ out.value.iv = in.iv
            /\ out.value.tag = in.tag
            /\ Len(out.value.recipients) = Len(in.recipients)
            /\ \A i \in 1..Len(in.recipients) :
                  /\ out.value.recipients[i].encryptedKey
                        = in.recipients[i].encryptedKey
                  /\ out.value.recipients[i].ephemeralPublicKey
                        = in.recipients[i].ephemeralPublicKey

\* C1 witness: the largest envelope of the data model (65535 ciphertext
\* bytes, 256 recipients) has been encoded and decoded.
C1_Witness ==
    /\ pc = "decoded"
    /\ Untouched
    /\ txe.L = 65535
    /\ txe.N = 256
    /\ decoded = "ok"

\* C2: decoding a valid encoding followed by one or more extra bytes fails.
C2_TrailingBytesRejected ==
    (pc = "decoded" /\ extra # <<>> /\ ValidEnvelope(Input)) =>
        decoded = "throw"

\* C3: decoding a valid encoding cut short fails, and decode never returns
\* an envelope with an iv, tag, encryptedKey or ephemeralPublicKey shorter
\* than 12, 16, 24 or 32 bytes.
C3_TruncatedRejected ==
    LET out == Decoded
    IN  /\ (pc = "decoded" /\ keep >= 0 /\ ValidEnvelope(Input)) =>
              decoded = "throw"
        /\ (pc = "decoded" /\ decoded = "ok") =>
              /\ Len(out.value.iv) = 12
              /\ Len(out.value.tag) = 16
              /\ \A i \in 1..Len(out.value.recipients) :
                    /\ Len(out.value.recipients[i].encryptedKey) = 24
                    /\ Len(out.value.recipients[i].ephemeralPublicKey) = 32

\* C4: the encoding of an envelope of the data model with L ciphertext bytes
\* and N recipients has 31 + L + 56 * N bytes: L as a big-endian uint16, the
\* ciphertext, the iv, the tag, one byte N - 1, then for each recipient in
\* order its encryptedKey and its ephemeralPublicKey; and decode takes as
\* the ciphertext the bytes its big-endian reading of the prefix announces.
C4_TxeLayout ==
    LET in == Input
        B == Encoded.value
        bytes == Data
        L == Len(in.ciphertext)
        N == Len(in.recipients)
        announced == bytes[1] * 256 + bytes[2]
        present == IF Len(bytes) - 2 < announced THEN Len(bytes) - 2
                   ELSE announced
    IN  /\ (pc \in {"encoded", "decoded"} /\ ValidEnvelope(in)) =>
              /\ encoded = "ok"
              /\ Len(B) = 31 + L + 56 * N
              /\ B[1] = L \div 256
              /\ B[2] = L % 256
              /\ SubSeq(B, 3, 2 + L) = in.ciphertext
              /\ SubSeq(B, 3 + L, 14 + L) = in.iv
              /\ SubSeq(B, 15 + L, 30 + L) = in.tag
              /\ B[31 + L] = N - 1
              /\ \A i \in 1..N :
                    LET at == 31 + L + 56 * (i - 1)
                    IN  /\ SubSeq(B, at + 1, at + 24)
                              = in.recipients[i].encryptedKey
                        /\ SubSeq(B, at + 25, at + 56)
                              = in.recipients[i].ephemeralPublicKey
        /\ (pc = "decoded" /\ decoded = "ok") =>
              Decoded.value.ciphertext = SubSeq(bytes, 3, 2 + present)

\* C4 witness: an envelope whose length prefix has two different bytes
\* (L = 258 = 0x0102) has been encoded and decoded.
C4_Witness ==
    /\ pc = "decoded"
    /\ Untouched
    /\ txe.L = 258
    /\ encoded = "ok"
    /\ SubSeq(Encoded.value, 1, 2) = <<1, 2>>
    /\ decoded = "ok"

\* C5: encode rejects every envelope whose ciphertext has 2^16 bytes or
\* more, and never returns a blob whose length prefix differs from the
\* length of the ciphertext.
C5_LengthOverflowRejected ==
    LET B == Encoded.value
    IN  (pc # "start") =>
            /\ Len(Input.ciphertext) >= 65536 => encoded = "throw"
            /\ encoded = "ok" => B[1] * 256 + B[2] = Len(Input.ciphertext)

\* C6: encode rejects every envelope with more than 256 recipients, and
\* never returns a blob whose count byte plus one differs from the number
\* of recipient records written.
C6_TooManyRecipientsRejected ==
    (pc # "start") =>
        /\ Len(Input.recipients) > 256 => encoded = "throw"
        /\ encoded = "ok" =>
              Encoded.value[31 + Len(Input.ciphertext)] + 1
                  = Len(Input.recipients)

(***************************************************************************)
(* Claims about the RLP and Safe-Tx codecs, checked under SpecRLP.         *)
(***************************************************************************)
\* The value of a hexadecimal digit given by its character code.
HexVal(c) ==
    IF c \in 48..57 THEN c - 48
    ELSE IF c \in 97..102 THEN c - 87
    ELSE c - 55

\* The bytes a "0x..." string denotes.
BytesOfHex(s) ==
    [i \in 1..((Len(s) - 2) \div 2) |->
        16 * HexVal(s[2 * i + 1]) + HexVal(s[2 * i + 2])]

\* The minimal big-endian bytes of a non-negative integer; none for zero.
RECURSIVE BigEndian(_)
BigEndian(n) ==
    IF n = 0 THEN <<>> ELSE Append(BigEndian(n \div 256), n % 256)

\* The integer a big-endian byte string denotes.
RECURSIVE BigEndianValue(_)
BigEndianValue(b) ==
    IF b = <<>> THEN 0
    ELSE 256 * BigEndianValue(SubSeq(b, 1, Len(b) - 1)) + b[Len(b)]

RECURSIVE Join(_)
Join(parts) == IF parts = <<>> THEN <<>> ELSE Head(parts) \o Join(Tail(parts))

\* Canonical Ethereum RLP of a payload under a prefix base (0x80 or 0xc0).
CanonicalPrefix(base, payload) ==
    IF Len(payload) < 56 THEN <<base + Len(payload)>> \o payload
    ELSE LET size == BigEndian(Len(payload))
         IN  <<base + 55 + Len(size)>> \o size \o payload

\* The byte string a leaf stands for.
LeafBytes(leaf) ==
    IF leaf.t = "bytes" THEN leaf.v
    ELSE IF leaf.t = "str" THEN BytesOfHex(leaf.v)
    ELSE BigEndian(leaf.v[1])

\* Canonical Ethereum RLP of a tree.
RECURSIVE Canonical(_)
Canonical(value) ==
    IF value.t = "list"
    THEN CanonicalPrefix(192,
            Join([i \in 1..Len(value.items) |-> Canonical(value.items[i])]))
    ELSE LET b == LeafBytes(value)
         IN  IF Len(b) = 1 /\ b[1] < 128 THEN b ELSE CanonicalPrefix(128, b)

\* C7: decoding the encoding of a transaction gives back its nine payload
\* fields: the same address and data bytes, the same integers, the same
\* operation; the nonce is not in the encoding, and not in the result.
C7_SafeRoundTrip ==
    (pc = "decoded" /\ source = "tx" /\ safeOut.kind # "none") =>
        /\ safeOut.kind = "ok"
        /\ DOMAIN safeOut.value =
              {"to", "value", "data", "operation", "safeTxGas", "baseGas",
               "gasPrice", "gasToken", "refundReceiver"}
        /\ BytesOfHex(safeOut.value.to) = BytesOfHex(safeTx.to)
        /\ Len(BytesOfHex(safeOut.value.to)) = 20
        /\ safeOut.value.value = safeTx.value
        /\ BytesOfHex(safeOut.value.data) = BytesOfHex(safeTx.data)
        /\ safeOut.value.operation = safeTx.operation
        /\ safeOut.value.safeTxGas = safeTx.safeTxGas
        /\ safeOut.value.baseGas = safeTx.baseGas
        /\ safeOut.value.gasPrice = safeTx.gasPrice
        /\ BytesOfHex(safeOut.value.gasToken) = BytesOfHex(safeTx.gasToken)
        /\ BytesOfHex(safeOut.value.refundReceiver)
              = BytesOfHex(safeTx.refundReceiver)

\* C7 witness: a transaction with value 0, a single data byte below 0x80, a
\* nonce and three different gas fields has been encoded and decoded.
C7_Witness ==
    /\ pc = "decoded"
    /\ source = "tx"
    /\ safeOut.kind = "ok"
    /\ safeTx.value = 0
    /\ BytesOfHex(safeTx.data) = <<127>>
    /\ safeTx.nonce = 1337
    /\ safeTx.operation = 1
    /\ safeTx.safeTxGas = 7
    /\ safeOut.value.baseGas = 8

\* C8: RLP encode gives the canonical Ethereum RLP of every tree of byte
\* strings, non-negative integers and lists, and the encoding of a
\* transaction is the canonical RLP of the list to, value, data, operation,
\* safeTxGas, baseGas, gasPrice, gasToken, refundReceiver.
C8_CanonicalRlp ==
    /\ (pc # "start" /\ source = "tree") => wire = Canonical(tree)
    /\ (pc # "start" /\ source = "tx") =>
          wire = Canonical(List(<<
                    Str(safeTx.to),
                    Num(safeTx.value),
                    Str(safeTx.data),
                    Num(safeTx.operation),
                    Num(safeTx.safeTxGas),
                    Num(safeTx.baseGas),
                    Num(safeTx.gasPrice),
                    Str(safeTx.gasToken),
                    Str(safeTx.refundReceiver)>>))

\* C8 witness: a list whose payload has exactly 56 bytes has been encoded
\* in the long form (0xf8, 56).
C8_Witness ==
    /\ pc = "encoded"
    /\ source = "tree"
    /\ tree.t = "list"
    /\ Len(wire) = 58
    /\ SubSeq(wire, 1, 2) = <<248, 56>>

\* What the prefix of the item at the head of the bytes b announces:
\* whether the prefix is all there, its size, the size of the payload, and
\* whether the item is a list.
Header(b) ==
    LET tag == b[1]
        base == IF tag >= 192 THEN 192 ELSE 128
        lsize == tag - base - 55
    IN  IF tag < 128
        THEN [complete |-> TRUE, size |-> 0, payload |-> 1, list |-> FALSE]
        ELSE IF tag - base < 56
        THEN [complete |-> TRUE, size |-> 1, payload |-> tag - base,
              list |-> tag >= 192]
        ELSE IF Len(b) < 1 + lsize
        THEN [complete |-> FALSE, size |-> 1 + lsize, payload |-> 0,
              list |-> tag >= 192]
        ELSE [complete |-> TRUE, size |-> 1 + lsize,
              payload |-> BigEndianValue(SubSeq(b, 2, 1 + lsize)),
              list |-> tag >= 192]

\* Bytes of b are left after the item at its head.
BytesLeft(b) ==
    /\ b # <<>>
    /\ Header(b).complete
    /\ Header(b).size + Header(b).payload < Len(b)

\* C9: RLP decode rejects with the trailing-bytes error every input that has
\* bytes left after the top-level item, rejects the empty input with the
\* empty-input error, and returns a value only when no bytes are left.
C9_TrailingBytesRejected ==
    (pc = "decoded" /\ rlpOut.kind # "none") =>
        /\ wire = <<>> =>
              /\ rlpOut.kind = "throw"
              /\ rlpOut.error = "invalid RLP data: empty input"
        /\ BytesLeft(wire) =>
              /\ rlpOut.kind = "throw"
              /\ rlpOut.error = "invalid RLP data: trailing bytes"
        /\ rlpOut.kind = "ok" => ~BytesLeft(wire)

\* Some item in the region b, or nested in a list of it, has a prefix that
\* announces more bytes than are left in the region.
RECURSIVE RegionOverruns(_)
RegionOverruns(b) ==
    IF b = <<>> THEN FALSE
    ELSE LET h == Header(b)
             end == h.size + h.payload
         IN  IF ~h.complete \/ end > Len(b) THEN TRUE
             ELSE \/ h.list /\ RegionOverruns(SubSeq(b, h.size + 1, end))
                  \/ RegionOverruns(SubSeq(b, end + 1, Len(b)))

\* The top-level item of b, or an item nested in it, overruns.
ItemOverruns(b) ==
    LET h == Header(b)
        end == h.size + h.payload
    IN  \/ ~h.complete
        \/ end > Len(b)
        \/ h.list /\ RegionOverruns(SubSeq(b, h.size + 1, end))

\* C10: RLP decode rejects with the length-prefix error every input in
\* which the prefix of some item, at top level or nested, announces more
\* payload bytes than remain.
C10_OverrunRejected ==
    (pc = "decoded" /\ rlpOut.kind # "none" /\ wire # <<>>
        /\ ItemOverruns(wire)) =>
        /\ rlpOut.kind = "throw"
        /\ rlpOut.error = "invalid RLP data: invalid length prefix"

\* The bytes of a decoded item that is a byte string of exactly n bytes.
IsByteString(item) == item.t = "str"
HasBytes(item, n) == IsByteString(item) /\ Len(BytesOfHex(item.v)) = n

\* The items of a decoded list are the nine fields of a transaction.
NineFields(item) ==
    /\ item.t = "list"
    /\ Len(item.items) = 9
    /\ \A i \in {1, 8, 9} : HasBytes(item.items[i], 20)
    /\ \A i \in {2, 3, 5, 6, 7} : IsByteString(item.items[i])
    /\ \/ HasBytes(item.items[4], 0)
       \/ HasBytes(item.items[4], 1) /\ BytesOfHex(item.items[4].v) = <<1>>

\* C11: Safe-Tx decode returns a transaction only when the decoded top-level
\* item is a list of nine elements with 20-byte strings at 0, 7 and 8, byte
\* strings at 1, 2, 4, 5, 6 and the empty string (CALL) or the byte 0x01
\* (DELEGATECALL) at 3; on every other input it fails with an error.
C11_SafeDecodeChecksFields ==
    (pc = "decoded" /\ safeOut.kind # "none") =>
        LET top == rlp_decode(wire)
            good == top.kind = "ok" /\ NineFields(top.value)
        IN  /\ safeOut.kind = "ok" => good
            /\ good =>
                  /\ safeOut.kind = "ok"
                  /\ safeOut.value.operation =
                        IF HasBytes(top.value.items[4], 0) THEN 0 ELSE 1
            /\ ~good => safeOut.kind = "throw"

(***************************************************************************)
(* Claims about encrypt and decrypt, checked under SpecEnc.                *)
(***************************************************************************)
\* The envelope in the blob that encrypt returned, and the private input.
ReturnedEnvelope == txe_decode(encOut.value.blob).value
ReturnedPrivate == encOut.value.private

\* C12: encrypt with no recipients fails with the error of the missing
\* recipients and returns neither a blob nor a private input; with
\* recipients it does not fail, and the envelope of the blob it returns has
\* as many recipients as the list.
C12_NoRecipients ==
    /\ (pc # "start" /\ Len(encRecipients) = 0) =>
          /\ encOut.kind = "throw"
          /\ encOut.error = "must encrypt to at least one recipient"
    /\ Len(encRecipients) > 0 => encOut.kind # "throw"
    /\ encOut.kind = "ok" =>
          /\ Len(encRecipients) > 0
          /\ Len(ReturnedEnvelope.recipients) = Len(encRecipients)
          /\ 31 + Len(ReturnedEnvelope.ciphertext)
                + 56 * Len(encRecipients) = Len(encOut.value.blob)

\* C12 witness: encrypt has returned a blob for three recipients.
C12_Witness ==
    /\ pc = "returned"
    /\ encOut.kind = "ok"
    /\ Len(encRecipients) = 3
    /\ Len(ReturnedEnvelope.recipients) = 3

\* C13: whatever the order in which the key generations and the
\* encryptions complete, position i of the envelope holds the public half
\* of the ephemeral key generated for position i and the content key
\* wrapped under it for recipient i, and position i of the private input
\* holds that recipient's public key and that ephemeral private key.
C13_RecipientOrder ==
    encOut.kind = "ok" =>
        /\ Len(ReturnedEnvelope.recipients) = Len(encRecipients)
        /\ Len(ReturnedPrivate.recipients) = Len(encRecipients)
        /\ \A i \in 1..Len(encRecipients) :
              LET public == ReturnedEnvelope.recipients[i]
                  private == ReturnedPrivate.recipients[i]
                  theirs == privateKeyOf(encRecipients[i])
              IN  /\ public.ephemeralPublicKey = publicKeyOf(encEpks[i])
                  /\ aesKeyUnwrap(
                        concatKdf(X25519(theirs, public.ephemeralPublicKey)),
                        public.encryptedKey) = Ok(encCek)
                  /\ private.publicKey = recipientKey(encRecipients[i])
                  /\ private.ephemeralPrivateKey = encEpks[i]

\* C13 witness: of three recipients, the key of the first position was
\* generated last and the key of the last position first, and the first
\* encryption to complete was not that of the first position.
C13_Witness ==
    /\ pc = "returned"
    /\ encRecipients = <<1, 2, 3>>
    /\ encEpks[1] = randomKey(4)
    /\ encEpks[3] = randomKey(2)
    /\ ReturnedEnvelope.iv # randomIv(5)

\* The nine fields of a decoded transaction are those of the transaction.
SameTransaction(out, in) ==
    /\ BytesOfHex(out.to) = BytesOfHex(in.to)
    /\ out.value = in.value
    /\ BytesOfHex(out.data) = BytesOfHex(in.data)
    /\ out.operation = in.operation
    /\ out.safeTxGas = in.safeTxGas
    /\ out.baseGas = in.baseGas
    /\ out.gasPrice = in.gasPrice
    /\ BytesOfHex(out.gasToken) = BytesOfHex(in.gasToken)
    /\ BytesOfHex(out.refundReceiver) = BytesOfHex(in.refundReceiver)

\* The key pair is that of a recipient of the call.
Listed(id) == \E i \in 1..Len(encRecipients) : encRecipients[i] = id

\* C14: decrypt of the blob that encrypt returned, with the private key of
\* any recipient of the list, at whatever position, returns the
\* transaction.
C14_EncryptDecryptRoundTrip ==
    (pc = "decrypted" /\ stored = encOut.value.blob /\ Listed(decKey)) =>
        /\ decOut.kind = "ok"
        /\ SameTransaction(decOut.value, safeTx)

\* C14 witness: the third of three recipients has decrypted a blob whose
\* ciphertext, iv and tag come from an encryption that did not complete
\* first.
C14_Witness ==
    /\ pc = "decrypted"
    /\ stored = encOut.value.blob
    /\ encRecipients = <<1, 2, 3>>
    /\ decKey = 3
    /\ decOut.kind = "ok"
    /\ ReturnedEnvelope.iv # randomIv(5)

\* The private key unwraps none of the encrypted keys of the stored blob.
UnwrapsNone(privateKey) ==
    LET envelope == txe_decode(stored).value
    IN  \A i \in 1..Len(envelope.recipients) :
            aesKeyUnwrap(
                concatKdf(X25519(privateKey,
                                 envelope.recipients[i].ephemeralPublicKey)),
                envelope.recipients[i].encryptedKey).kind = "throw"

\* What decrypt gives the first recipient for the blob with a changed tag:
\* its key unwraps and the content does not authenticate.
AuthTagInvalidOutcome ==
    LET data == encOut.value.blob
        L == 256 * data[1] + data[2]
    IN  decrypt(flipByte(data, 2 + L + IV_LEN),
                privateKeyOf(encRecipients[1]))

\* C15: decrypt with a private key that unwraps none of the encrypted keys
\* fails and returns no transaction, and its failure is another one than
\* that of a content that does not authenticate under an unwrapped key.
C15_NotARecipient ==
    (pc = "decrypted" /\ UnwrapsNone(privateKeyOf(decKey))) =>
        /\ decOut.kind = "throw"
        /\ AuthTagInvalidOutcome.kind = "throw"
        /\ decOut # AuthTagInvalidOutcome

(***************************************************************************)
(* Claims about extract, argify and the circuit, checked under             *)
(* SpecCircuit.                                                            *)
(***************************************************************************)
\* The string is "0x" and the digits of exactly 32 bytes.
Is32Bytes(s) ==
    /\ Len(s) = 2 + 2 * 32
    /\ SubSeq(s, 1, 2) = Prefix0x
    /\ \A i \in 3..Len(s) : isHexDigit(s[i])

\* 0 <= n < 2^256 for a bigint given by its sign and its bytes.
InRange(n) == (n.mag = <<>> \/ ~n.neg) /\ Len(n.mag) <= 32

\* extract was called.
Extracted == extractArgs # None

\* C16: extract throws "invalid struct hash" when the struct hash is not
\* exactly 32 bytes, and "invalid nonce" when the struct hash is 32 bytes
\* and the nonce is negative or at least 2^256; it does so whether or not
\* the blob can be decoded, and returns no Input.  With a struct hash of 32
\* bytes and a blob that decodes, the nonces 0 and 2^256 - 1 are accepted.
C16_ExtractChecksArguments ==
    Extracted =>
        /\ ~Is32Bytes(extractArgs.structHash)
              => extracted = Throw("invalid struct hash")
        /\ Is32Bytes(extractArgs.structHash) /\ ~InRange(extractArgs.nonce)
              => extracted = Throw("invalid nonce")
        /\ (/\ Is32Bytes(extractArgs.structHash)
            /\ extractArgs.nonce \in {bigint(FALSE, <<>>),
                                      bigint(FALSE, [i \in 1..32 |-> 255])}
            /\ txe_decode(extractArgs.blob).kind = "ok")
              => extracted.kind = "ok"

\* extract threw "invalid nonce" for the nonce 2^256 and a blob that cannot
\* be decoded.
C16_Witness ==
    /\ Extracted
    /\ Is32Bytes(extractArgs.structHash)
    /\ extractArgs.nonce.mag = <<1>> \o [i \in 1..32 |-> 0]
    /\ txe_decode(extractArgs.blob).kind = "throw"
    /\ extracted = Throw("invalid nonce")

\* n bytes, all of them zero.
Zeros(b, n) == Len(b) = n /\ \A i \in 1..Len(b) : b[i] = 0

\* extract returned an Input.
Accepted == Extracted /\ extracted.kind = "ok"

\* C17: the Input extract returns has in its public half the struct hash
\* and the nonce it was given and the ciphertext, iv, tag and recipients of
\* the decoded blob, in their order; its private half is zero bytes: a
\* transaction as long as the ciphertext, a content encryption key of 16
\* bytes, and for every public recipient a public key and an ephemeral
\* private key of 32 bytes each.
C17_ExtractShapes ==
    Accepted =>
        LET envelope == txe_decode(extractArgs.blob).value
            public == extracted.value.public
            private == extracted.value.private
        IN  /\ DOMAIN extracted.value = {"public", "private"}
            /\ public = [structHash |-> extractArgs.structHash,
                         nonce |-> extractArgs.nonce,
                         ciphertext |-> envelope.ciphertext,
                         iv |-> envelope.iv,
                         tag |-> envelope.tag,
                         recipients |-> envelope.recipients]
            /\ DOMAIN private
                  = {"transaction", "contentEncryptionKey", "recipients"}
            /\ Zeros(private.transaction, Len(envelope.ciphertext))
            /\ Zeros(private.contentEncryptionKey, 16)
            /\ Len(private.recipients) = Len(envelope.recipients)
            /\ \A i \in 1..Len(private.recipients) :
                  /\ DOMAIN private.recipients[i]
                        = {"publicKey", "ephemeralPrivateKey"}
                  /\ Zeros(private.recipients[i].publicKey, 32)
                  /\ Zeros(private.recipients[i].ephemeralPrivateKey, 32)

\* extract returned an Input for a blob of three recipients that differ
\* and a ciphertext that is not empty.
C17_Witness ==
    /\ Accepted
    /\ Len(extracted.value.public.recipients) = 3
    /\ extracted.value.public.recipients[1]
          # extracted.value.public.recipients[3]
    /\ Len(extracted.value.public.ciphertext) > 0
    /\ Len(extracted.value.private.transaction)
          = Len(extracted.value.public.ciphertext)

\* The lists argify is to serialize, their leaves as byte strings; the
\* nonce is its minimal big-endian bytes.
PairsOf(recipients, first, second) ==
    List([i \in 1..Len(recipients) |->
            List(<<Bin(recipients[i][first]), Bin(recipients[i][second])>>)])
PublicList(public) ==
    List(<<Bin(BytesOfHex(public.structHash)), Bin(public.nonce.mag),
           Bin(public.ciphertext), Bin(public.iv), Bin(public.tag),
           PairsOf(public.recipients, "encryptedKey", "ephemeralPublicKey")>>)
PrivateList(private) ==
    List(<<Bin(private.transaction), Bin(private.contentEncryptionKey),
           PairsOf(private.recipients, "publicKey", "ephemeralPrivateKey")>>)

\* What the RLP decoder returns for a tree: the lists, and every leaf as
\* the "0x" string of its bytes.
RECURSIVE AsDecoded(_)
AsDecoded(value) ==
    IF value.t = "list"
    THEN List([i \in 1..Len(value.items) |-> AsDecoded(value.items[i])])
    ELSE Str(toBytes(value.v))

\* The string is "0x" and the lower-case digits of the canonical RLP of
\* the tree, and decoding its bytes gives the tree back.
Serializes(string, value) ==
    /\ isBytes(string)
    /\ \A i \in 3..Len(string) : \E v \in 1..16 : HexDigits[v] = string[i]
    /\ BytesOfHex(string) = Canonical(value)
    /\ rlp_decode(BytesOfHex(string)) = Ok(AsDecoded(value))

\* C18: argify returns for the public half the hexadecimal string of the
\* RLP list [structHash, nonce, ciphertext, iv, tag, [[encryptedKey,
\* ephemeralPublicKey], ...]] and for the private half that of the list
\* [transaction, contentEncryptionKey, [[publicKey, ephemeralPrivateKey],
\* ...]], the recipients in the order of the Input; decoding either string
\* gives back every field, the nonce as its minimal big-endian bytes.
C18_ArgifyLists ==
    pc = "argified" =>
        /\ DOMAIN argv = {"public", "private"}
        /\ Serializes(argv.public, PublicList(circuitInput.public))
        /\ Serializes(argv.private, PrivateList(circuitInput.private))

\* argify was called with the nonce 1337, three recipients that differ and
\* the private input of encrypt.
C18_Witness ==
    /\ pc = "argified"
    /\ circuitInput.public.nonce.mag = <<5, 57>>
    /\ Len(circuitInput.public.recipients) = 3
    /\ circuitInput.public.recipients[1] # circuitInput.public.recipients[3]
    /\ circuitInput.private.recipients[1] # circuitInput.private.recipients[3]
    /\ circuitInput.private = encOut.value.private

\* The circuit was run on the input made of the public half extract
\* returns for the struct hash and the nonce of the transaction and of the
\* private input of the same call of encrypt.
VerifiedLegitimate == pc = "verified" /\ circuitInput = Legitimate

FieldsOf(n) ==
    {<<f, 0>> : f \in {"structHash", "nonce", "ciphertext", "iv", "tag",
                       "transaction", "contentEncryptionKey"}}
    \cup {<<f, i>> : f \in {"encryptedKey", "ephemeralPublicKey",
                            "publicKey", "ephemeralPrivateKey"},
                     i \in 1..n}
FieldValue(input, field) ==
    LET f == field[1]
        i == field[2]
    IN  IF f \in {"structHash", "nonce", "ciphertext", "iv", "tag"}
        THEN <<input.public[f]>>
        ELSE IF f \in {"transaction", "contentEncryptionKey"}
        THEN <<input.private[f]>>
        ELSE IF f \in {"encryptedKey", "ephemeralPublicKey"}
        THEN <<input.public.recipients[i][f]>>
        ELSE <<input.private.recipients[i][f]>>

\* The fields in which an input of as many recipients as the legitimate
\* one differs from it.
Differing(input, legitimate) ==
    {field \in FieldsOf(Len(legitimate.public.recipients)) :
        FieldValue(input, field) # FieldValue(legitimate, field)}

\* The circuit was run on an input of as many recipients as the legitimate
\* one.
VerifiedAny ==
    /\ pc = "verified"
    /\ Len(circuitInput.public.recipients) = Len(encRecipients)
    /\ Len(circuitInput.private.recipients) = Len(encRecipients)

\* The circuit was run on an input that differs from the legitimate one in
\* exactly the given field.
VerifiedWithChanged(field) ==
    VerifiedAny /\ Differing(circuitInput, Legitimate) = {field}

\* The change of a recipient's public key or ephemeral private key changes
\* what X25519 computes from them: the public ephemeral key or the shared
\* secret.
ChangesX25519(was, now) ==
    \/ publicKeyOf(now.ephemeralPrivateKey)
          # publicKeyOf(was.ephemeralPrivateKey)
    \/ X25519(now.ephemeralPrivateKey, now.publicKey)
          # X25519(was.ephemeralPrivateKey, was.publicKey)

C23_DecodeTerminates ==
    (pc = "decoded" /\ rlpOut.kind # "none") =>
        rlpOut.kind \in {"ok", "throw"}


\* The bytes are the minimal big-endian form of an integer: no leading zero
\* byte, and no byte at all for zero.
Minimal(b) == b = <<>> \/ b[1] # 0

\* The positions of value, safeTxGas, baseGas and gasPrice in the list.
IntegerFields == {2, 5, 6, 7}

\* C24: Safe-Tx decode returns a transaction only when each of the integer
\* fields value, safeTxGas, baseGas and gasPrice is a minimal big-endian byte
\* string; it rejects 0x00 0x02 for 2 and the single byte 0x00 for zero, so
\* two different payloads never decode to the same integer.
C24_MinimalIntegers ==
    (pc = "decoded" /\ safeOut.kind = "ok") =>
        LET top == rlp_decode(wire).value
        IN  \A i \in IntegerFields :
                Minimal(BytesOfHex(top.items[i].v))


\* C27: RLP decode accepts only canonical encodings: when it returns a
\* value, encoding that value gives back the input bytes; a single byte
\* below 0x80 behind the prefix 0x81, a payload of fewer than 56 bytes
\* behind a long-form prefix and a length with leading zero bytes are not
\* accepted.
C27_DecodeCanonicalOnly ==
    (pc = "decoded" /\ rlpOut.kind = "ok") =>
        rlp_encode(rlpOut.value) = wire


(***************************************************************************)
(* The input composed of extract's public half and encrypt's private       *)
(* input, checked under SpecCircuit.                                       *)
(***************************************************************************)
\* The input is composed of what extract returned for the blob encrypt
\* returned and of the private input encrypt returned.
ComposedOfOneCall ==
    /\ pc = "composed"
    /\ extractArgs.blob = encOut.value.blob
    /\ circuitInput.public = extracted.value.public
    /\ circuitInput.private = encOut.value.private

\* C25: in the input composed of one encrypt call and extract of its blob,
\* private.transaction is as long as public.ciphertext, the two recipient
\* lists are as long as the list of input recipients, and at every position
\* the public ephemeral key is the public key of the private ephemeral key
\* and the private public key is the input recipient of that position.
C25_ComposedInputAligned ==
    ComposedOfOneCall =>
        LET public == circuitInput.public
            private == circuitInput.private
        IN  /\ Len(private.transaction) = Len(public.ciphertext)
            /\ Len(private.recipients) = Len(public.recipients)
            /\ Len(private.recipients) = Len(encRecipients)
            /\ \A i \in 1..Len(encRecipients) :
                  /\ public.recipients[i].ephemeralPublicKey
                        = publicKeyOf(private.recipients[i]
                                          .ephemeralPrivateKey)
                  /\ private.recipients[i].publicKey
                        = recipientKey(encRecipients[i])

\* C25 witness: an input composed for two different recipients, the second
\* key pair first, whose ephemeral keys differ.
C25_Witness ==
    /\ ComposedOfOneCall
    /\ encRecipients = <<2, 1>>
    /\ Len(circuitInput.public.ciphertext) > 0
    /\ circuitInput.public.recipients[1].ephemeralPublicKey
          # circuitInput.public.recipients[2].ephemeralPublicKey


(***************************************************************************)
(* The JWE adapter, checked under SpecEnc.                                 *)
(***************************************************************************)
\* encrypt has made one JWE per recipient and assembled its envelope.
JwesAssembled == pc \in {"exports", "returned", "stored", "decrypted"}

\* The JWE of recipient i in a general JWE, as jose's flattened form.
Flattened(jwe, i) ==
    [ciphertext |-> jwe.ciphertext,
     iv |-> jwe.iv,
     tag |-> jwe.tag,
     encrypted_key |-> jwe.recipients[i].encrypted_key,
     header |-> jwe.recipients[i].header,
     protected |-> jwe.protected]

\* The general JWE has the content of the first JWE and, at every position,
\* the encrypted key and the header of the JWE of that position.
SameJWE(general, jwes) ==
    /\ general.ciphertext = jwes[1].ciphertext
    /\ general.iv = jwes[1].iv
    /\ general.tag = jwes[1].tag
    /\ general.protected = jwes[1].protected
    /\ Len(general.recipients) = Len(jwes)
    /\ \A i \in 1..Len(jwes) :
          /\ general.recipients[i].encrypted_key = jwes[i].encrypted_key
          /\ general.recipients[i].header = jwes[i].header

\* C22: the JWEs of an encrypt call, converted to an envelope and back,
\* give a JWE with the same ciphertext, iv, tag and protected value and, at
\* every position, the same encrypted_key and epk.x; converting that JWE to
\* an envelope gives the same envelope again; toJWE of the envelope and of
\* its blob is that JWE too, recipient i made of envelope field i, and no two
\* recipients of it share an epk.
C22_JweRoundTrip ==
    JwesAssembled =>
        LET envelope == toTXE(encJwes).value
            general == fromTXE(envelope)
            n == Len(encJwes)
        IN  /\ SameJWE(general, encJwes)
            /\ toTXE([i \in 1..n |-> Flattened(general, i)]) = Ok(envelope)
            /\ toJWE(TXE(envelope)) = Ok(general)
            /\ toJWE(Uint8Array(txe_encode(envelope).value)) = Ok(general)
            /\ \A i, j \in 1..n :
                  i # j => general.recipients[i].header.epk.x
                              # general.recipients[j].header.epk.x

\* C22 witness: the JWEs of three recipients have been converted; the
\* second and third have a ciphertext of their own, which is not the one of
\* the envelope.
C22_Witness ==
    /\ JwesAssembled
    /\ Len(encJwes) = 3
    /\ encJwes[2].ciphertext # encJwes[1].ciphertext
    /\ encJwes[3].iv # encJwes[1].iv
    /\ Len(base64url_decode(encJwes[1].ciphertext)) % 3 # 0


(***************************************************************************)
(* Freshness of the keys, checked under SpecCalls.                         *)
(***************************************************************************)
\* What the calls of encrypt returned so far, oldest first.
Returned ==
    LET all == IF pc = "returned" THEN Append(history, encOut) ELSE history
    IN  SelectSeq(all, LAMBDA out : out.kind = "ok")

\* The content encryption key and the ephemeral keys behind a returned
\* envelope: the private keys of its private input and the public keys in
\* its blob.
CekOf(out) == out.value.private.contentEncryptionKey
EphemeralPrivateKeys(out) ==
    [i \in 1..Len(out.value.private.recipients) |->
        out.value.private.recipients[i].ephemeralPrivateKey]
EphemeralPublicKeys(out) ==
    LET envelope == txe_decode(out.value.blob).value
    IN  [i \in 1..Len(envelope.recipients) |->
            envelope.recipients[i].ephemeralPublicKey]

\* No value is at two positions of the sequence.
Distinct(keys) ==
    \A i, j \in 1..Len(keys) : i # j => keys[i] # keys[j]

\* C21: over any sequence of encrypt calls, no content encryption key is in
\* two envelopes, and no ephemeral key, private or public, is at two
\* positions, whether of one envelope or of two, also when the same
\* recipient or the same transaction is encrypted again.
C21_KeysFresh ==
    LET outs == Returned
    IN  /\ Distinct([k \in 1..Len(outs) |-> CekOf(outs[k])])
        /\ Distinct(Join([k \in 1..Len(outs) |->
                                EphemeralPrivateKeys(outs[k])]))
        /\ Distinct(Join([k \in 1..Len(outs) |->
                                EphemeralPublicKeys(outs[k])]))

\* C21 witness: the same transaction has been encrypted twice for the same
\* recipient listed twice, and both calls returned.
C21_Witness ==
    /\ pc = "returned"
    /\ Len(Returned) = 2
    /\ encRecipients = <<1, 1>>
    /\ Len(Returned[1].value.private.recipients) = 2
    /\ Returned[1].value.private.transaction
          = Returned[2].value.private.transaction
    /\ \A i \in 1..2 : Returned[1].value.private.recipients[i].publicKey
                          = recipientKey(1)


(***************************************************************************)
(* The private half of extract, checked under SpecExtracts.                *)
(***************************************************************************)
\* The sizes the private half is made from.
SizesOf(out) ==
    <<Len(out.value.public.ciphertext), Len(out.value.public.recipients)>>

\* extract has accepted a call after the one the caller kept.
TwoAccepted ==
    /\ pc = "extracted"
    /\ extracted.kind = "ok"
    /\ history # <<>>

\* C28: two accepted calls of extract whose ciphertexts are equally long
\* and whose recipient lists are equally long return identical private
\* halves, whatever the struct hashes, the nonces and the bytes of the
\* blobs are.
C28_PrivateHalfFromSizes ==
    TwoAccepted =>
        (SizesOf(history[1].out) = SizesOf(extracted) =>
            history[1].out.value.private = extracted.value.private)

\* C28 witness: two accepted calls with equal sizes and two recipients that
\* differ in the struct hash, the nonce, the ciphertext, the tag and the
\* encrypted keys.
C28_Witness ==
    /\ TwoAccepted
    /\ SizesOf(history[1].out) = SizesOf(extracted)
    /\ Len(extracted.value.public.recipients) = 2
    /\ history[1].args.structHash # extractArgs.structHash
    /\ history[1].args.nonce # extractArgs.nonce
    /\ history[1].out.value.public.ciphertext
          # extracted.value.public.ciphertext
    /\ history[1].out.value.public.tag # extracted.value.public.tag
    /\ history[1].out.value.public.recipients[1].encryptedKey
          # extracted.value.public.recipients[1].encryptedKey


(***************************************************************************)
(* The codec and the caller's memory, checked under SpecMem.               *)
(***************************************************************************)
\* The memory before the first call, and the number of its buffers.
InitialMemory == Memory(Input, mem.layout)

\* The array shows the same bytes in both heaps.
SameBytes(array, heap, other) == bytesOf(heap, array) = bytesOf(other, array)

\* The buffers of the arrays of the sequence are pairwise different.
OwnBuffers(arrays) ==
    \A i, j \in 1..Len(arrays) : i # j => arrays[i].buffer # arrays[j].buffer

\* encode has returned: every array of the input shows the bytes it showed
\* before the call, and the blob is the view of a buffer that did not exist
\* before, holding the encoding.
EncodeCopies ==
    /\ \A k \in 1..Len(arraysOf(mem.input)) :
          SameBytes(arraysOf(mem.input)[k], mem.heap, InitialMemory.heap)
    /\ mem.blob.buffer > Len(InitialMemory.heap)
    /\ bytesOf(mem.heap, mem.blob) = txe_encode(Input).value

\* decode has returned: the blob and the input show the bytes they showed
\* before, every decoded field has a buffer of its own that is neither the
\* blob's nor one of the input's, and holds the bytes of the field.
DecodeCopies ==
    /\ EncodeCopies
    /\ OwnBuffers(arraysOf(mem.fields))
    /\ \A k \in 1..Len(arraysOf(mem.fields)) :
          arraysOf(mem.fields)[k].buffer > mem.blob.buffer
    /\ contents(mem.heap, mem.fields) = Input

\* The last write changed the array it was made to and no other array the
\* caller holds.
WriteStaysInArray ==
    /\ ~SameBytes(mem.last.target.array, mem.heap, mem.last.heap)
    /\ \A other \in Held :
          [of |-> other.of, k |-> other.k]
                # [of |-> mem.last.target.of, k |-> mem.last.target.k]
              => SameBytes(other.array, mem.heap, mem.last.heap)

\* C26: encode leaves every array of its input unchanged and returns a
\* newly allocated blob; decode leaves the blob unchanged and returns
\* copies, so a write to a decoded field changes neither the blob nor any
\* other decoded field (nor does a write to the blob or to the input change
\* a decoded field).
C26_CodecCopies ==
    /\ pc = "encoded" => EncodeCopies
    /\ pc = "decoded" => DecodeCopies
    /\ pc = "written" => WriteStaysInArray

\* C26 witness: the last byte of the ephemeral public key of the second
\* decoded recipient, the last byte of the blob, has been written.
C26_Witness ==
    /\ pc = "written"
    /\ mem.last.target.of = "decoded"
    /\ mem.last.target.k = 7
    /\ mem.layout = "shared"
    /\ bytesOf(mem.heap, mem.last.target.array)[EPHEMERAL_PUBLIC_KEY_LEN]
          # bytesOf(mem.heap, mem.blob)[mem.blob.length]

====
